---------------------------- MODULE Spec2Model ----------------------------
(***************************************************************************)
(* Model of the transactional directory-merge engine of src/src/backup.rs: *)
(* BasicTransaction, InDir, ComplexTransaction and SafeTransaction (backup *)
(* + run + reverse + Drop).                                                *)
(*                                                                         *)
(* A directory tree is a function from the relative paths present in it    *)
(* (sequences of path components; the root itself is the empty sequence    *)
(* and is not in the domain) to a node: a directory, or a file with its    *)
(* content.  A tree is well formed when the parent of every present path   *)
(* is a directory.                                                         *)
(*                                                                         *)
(* The filesystem calls of the code (std::fs, fs_extra::dir::copy,         *)
(* walkdir) are modelled by their documented behaviour.  They fail for     *)
(* structural reasons (a file where a directory is needed, a directory     *)
(* where a file is needed) and, when a file's content is read, written or  *)
(* removed, because the environment makes that one operation fail (an      *)
(* injected I/O fault).                                                    *)
(*                                                                         *)
(* The other parts of the program have their own specifications over their *)
(* own variables: SpecSource (BasicTransaction::new), SpecResolve          *)
(* (AddonKey::download_link), SpecCache (DownloadCache), SpecSerde (the    *)
(* serde representation of the configuration), SpecLocate (find_addons and *)
(* the addon folder of Addons::install), SpecOrder (Addons and LoadOrder)  *)
(* and SpecMissing (missing_addons).  In each specification the variables  *)
(* of the other parts keep their initial values.                           *)
(***************************************************************************)
EXTENDS Integers, Sequences, FiniteSets, TLC

\* ------------------------------------------------------------------ bounds

\* The largest number of nodes (files and directories) of the source trees of
\* one transaction, all its members together.
MaxSrcNodes == 3
\* The largest number of members added to a ComplexTransaction.
MaxParts == 2

\* The relative paths of the model's universe: three top-level entries and one
\* nested entry, so that in one run a path can be overwritten, another added,
\* a third left alone, and a path can be created below a new directory or
\* collide with a node of the other kind.
PathsU == { <<"a">>, <<"b">>, <<"d">>, <<"d", "c">> }

\* The paths of the universe that can be directories as well as files.
DirsU == { <<"d">>, <<"d", "c">>, <<"c">> }

\* The paths of the trees the model wraps in InDir, and the prefix directory
\* it puts them under.
InnerPathsU == { <<"c">> }
InDirName == <<"d">>

\* ------------------------------------------------------------------- trees

DirNode == [isdir |-> TRUE, data |-> ""]
FileNode(c) == [isdir |-> FALSE, data |-> c]

\* File contents: what the destination held before, what a failed write
\* leaves behind, what was in the backup directory before the guard was
\* built, and the content of the files of the i-th source.
OldData == "old"
JunkData == "junk"
StaleData == "stale"
SrcNames == <<"s1", "s2", "s3", "s4">>
SrcData(i) == SrcNames[i]

EmptyTree == [p \in {} |-> DirNode]

Parent(p) == SubSeq(p, 1, Len(p) - 1)

\* The proper, non-empty prefixes of a path.
Ancestors(p) == { SubSeq(p, 1, k) : k \in 1..(Len(p) - 1) }

WellFormed(t) ==
    \A p \in DOMAIN t : \A q \in Ancestors(p) : q \in DOMAIN t /\ t[q].isdir

\* Every well-formed tree over the paths U whose files all hold content c.
TreesOver(U, c) ==
    UNION { { t \in [P -> {DirNode, FileNode(c)}] :
                /\ WellFormed(t)
                /\ \A p \in P : t[p].isdir => p \in DirsU } : P \in SUBSET U }

\* The source trees of at most n nodes.
SrcTrees(U, c, n) == { t \in TreesOver(U, c) : Cardinality(DOMAIN t) <= n }

IsFileAt(fs, p) == p \in DOMAIN fs /\ ~fs[p].isdir
IsDirAt(fs, p) == p = << >> \/ (p \in DOMAIN fs /\ fs[p].isdir)

\* Path::exists(): false as well when a component of the path is a file.
Exists(fs, p) == p = << >> \/ p \in DOMAIN fs

\* A component above p is a file: every access below it fails with
\* NotADirectory.
Blocked(fs, p) == \E q \in Ancestors(p) : IsFileAt(fs, q)

FilePaths(t) == { p \in DOMAIN t : ~t[p].isdir }
DirPaths(t) == { p \in DOMAIN t : t[p].isdir }

\* The files of a tree with their contents, directories left out.
FilesOf(t) == [p \in FilePaths(t) |-> t[p].data]

\* fs with the nodes of g added or replaced.
Overlay(fs, g) ==
    [p \in DOMAIN fs \cup DOMAIN g |-> IF p \in DOMAIN g THEN g[p] ELSE fs[p]]

Without(fs, P) == [p \in DOMAIN fs \ P |-> fs[p]]

\* std::fs::create_dir_all(p) where nothing above p is a file and p is not a
\* file: p and its missing ancestors become directories.
WithDirs(fs, P) ==
    LET new == { q \in UNION { Ancestors(p) \cup {p} : p \in P } :
                     q # << >> /\ q \notin DOMAIN fs }
    IN  Overlay(fs, [q \in new |-> DirNode])

CanMkdirAll(fs, p) == ~Blocked(fs, p) /\ ~IsFileAt(fs, p)

\* ------------------------------------------------------------ transactions

\* The three implementations of the Transaction trait, as values.
Basic(t) == [kind |-> "basic", files |-> t]
InDir(txn, dir) == [kind |-> "indir", transaction |-> txn, dir |-> dir]
Complex(parts) == [kind |-> "complex", parts |-> parts]

\* ComplexTransaction::new and ComplexTransaction::add (parts.push).
ComplexNew == Complex(<< >>)
\* Mutation: add puts the new member first.
AddFront(c, txn) == Complex(<<txn>> \o c.parts)
Add(c, txn) == Complex(Append(c.parts, txn))

\* BasicTransaction::relative_file_paths: walkdir over the source root, the
\* entries that are files, each stripped of the root.
\* Mutation: the walk does not filter out directories.
BasicRelPathsWithDirs(files) == DOMAIN files
BasicRelPaths(files) == { p \in DOMAIN files : ~files[p].isdir }

\* InDir::relative_file_paths: dir.join(p) for every path of the inner one.
InDirRelPaths(dir, inner) == { dir \o p : p \in inner }

RECURSIVE RelPaths(_)
\* Transaction::relative_file_paths.
RelPaths(txn) ==
    CASE txn.kind = "basic" -> BasicRelPaths(txn.files)
      [] txn.kind = "indir" -> InDirRelPaths(txn.dir, RelPaths(txn.transaction))
      [] txn.kind = "complex" ->
            UNION { RelPaths(txn.parts[i]) : i \in 1..Len(txn.parts) }

\* The outcome of an operation on a tree: whether it returned Ok, the tree it
\* left, and the text of the error it returned.
Outcome(ok, fs, err) == [ok |-> ok, fs |-> fs, err |-> err]

\* The files W of the tree src, as nodes at root/p.
Placed(src, root, W) ==
    [t \in { root \o p : p \in W } |-> src[SubSeq(t, Len(root) + 1, Len(t))]]

\* fs_extra::dir::copy(src, root, {overwrite, content_only, copy_inside}),
\* root being an existing directory: every directory of src that does not
\* exist at the destination is created with create_all, then every file of
\* src is copied over the destination with std::fs::copy.  The first error
\* ends the copy.  The listing order of the entries is the filesystem's, so
\* any subset of the files may have been written when a copy fails; the file
\* whose write fails is left untouched or with a partial content.
\* Mutation: content_only is not set, so the source directory itself is
\* copied into root.
CopyOutcomesNotContentOnly(src, root, fs) ==
    LET to == root \o <<"src">>
    IN  { Outcome(TRUE,
                  Overlay(WithDirs(fs, {to} \cup { to \o q : q \in DirPaths(src) }),
                          Placed(src, to, FilePaths(src))),
                  "") }
\* Mutation: the copy skips the files that exist at the destination.
CopyOutcomesSkipExisting(src, root, fs) ==
    LET files == { p \in FilePaths(src) : ~Exists(fs, root \o p) }
    IN  { Outcome(TRUE, Overlay(WithDirs(fs, { root \o q : q \in DirPaths(src) }),
                                Placed(src, root, files)), "") }
CopyOutcomes(src, root, fs) ==
    LET need == { q \in DirPaths(src) : ~Exists(fs, root \o q) }
        stuck == { q \in need : Blocked(fs, root \o q) }
        fs1 == WithDirs(fs, { root \o q : q \in need })
        files == FilePaths(src)
        writable == { p \in files : /\ IsDirAt(fs1, Parent(root \o p))
                                    /\ ~IsDirAt(fs1, root \o p) }
    IN  IF stuck # {}
        THEN { Outcome(FALSE, WithDirs(fs, { root \o q : q \in C }), "NotADirectory") :
                 C \in SUBSET (need \ stuck) }
        ELSE { Outcome(TRUE, Overlay(fs1, Placed(src, root, files)), "") :
                 x \in IF writable = files THEN {1} ELSE {} }
             \cup
             UNION { UNION {
                 LET part == Overlay(fs1, Placed(src, root, W))
                 IN  IF f \in writable
                     THEN { Outcome(FALSE, part, "WriteFault"),
                            Outcome(FALSE,
                                    Overlay(part, [t \in {root \o f} |-> FileNode(JunkData)]),
                                    "WriteFault") }
                     ELSE { Outcome(FALSE, part, "NotWritable") }
                 : f \in files \ W } : W \in SUBSET writable }

RECURSIVE RunOutcomes(_, _, _)
RECURSIVE RunParts(_, _, _, _)

\* ComplexTransaction::run: the members in the order of parts, the first
\* error returned at once.
RunParts(parts, i, root, fs) ==
    IF i > Len(parts)
    THEN { Outcome(TRUE, fs, "") }
    ELSE UNION { IF o.ok THEN RunParts(parts, i + 1, root, o.fs) ELSE {o} :
                 o \in RunOutcomes(parts[i], root, fs) }

\* InDir::run: create_dir_all(root/dir), then the inner run below it.
\* Mutation: the inner transaction runs in root_dir itself.
InDirRunAtRoot(txn, root, fs) == RunOutcomes(txn.transaction, root, fs)
InDirRun(txn, root, fs) ==
    LET actual_root == root \o txn.dir
    IN  IF CanMkdirAll(fs, actual_root)
        THEN RunOutcomes(txn.transaction, actual_root, WithDirs(fs, {actual_root}))
        ELSE { Outcome(FALSE, fs, "NotADirectory") }

\* Transaction::run(root_dir): every outcome the run can have on fs.
RunOutcomes(txn, root, fs) ==
    CASE txn.kind = "basic" -> CopyOutcomes(txn.files, root, fs)
      [] txn.kind = "indir" -> InDirRun(txn, root, fs)
      [] txn.kind = "complex" -> RunParts(txn.parts, 1, root, fs)

\* ---------------------------------------------------------- SafeTransaction

\* What is at the backup path: nothing, a file, or a directory with its tree.
Absent == [kind |-> "absent", tree |-> EmptyTree]
AFile == [kind |-> "file", tree |-> EmptyTree]
ADir(t) == [kind |-> "dir", tree |-> t]

\* SafeTransaction::check_backup_dir: "" for Ok(()), else the error.
\* Mutation: the directory's entries are not looked at.
CheckBackupDirNoEmptyCheck(b) ==
    IF b.kind = "file" THEN "Backup path is a file" ELSE ""
CheckBackupDir(b) ==
    IF b.kind = "file" THEN "Backup path is a file"
    ELSE IF b.kind = "dir" /\ DOMAIN b.tree # {} THEN "Backup directory is not empty"
    ELSE ""

\* SafeTransaction::backup(root) on the destination fs and the backup tree
\* bk: a path that is a file at the destination is copied to the same path
\* below the backup directory, a path that is not found is skipped, any other
\* error (a directory at the path, a file above it, a failed copy) ends the
\* backup.  The paths come out of a HashSet: any subset of the files may have
\* been copied when the backup fails.
\* Mutation: a file is created in the backup for every path.
BackupOutcomesAllPaths(paths, fs, bk) ==
    { Outcome(TRUE,
              Overlay(WithDirs(bk, { Parent(p) : p \in paths }),
                      [p \in paths |-> IF IsFileAt(fs, p) THEN fs[p] ELSE FileNode(JunkData)]),
              "") }
BackupOutcomes(paths, fs, bk) ==
    LET found == { p \in paths : IsFileAt(fs, p) }
        bad == { p \in paths : IsDirAt(fs, p) \/ Blocked(fs, p) }
        Copied(W) == Overlay(WithDirs(bk, { Parent(p) : p \in W }), [p \in W |-> fs[p]])
    IN  { Outcome(TRUE, Copied(found), "") : x \in IF bad = {} THEN {1} ELSE {} }
        \cup
        UNION { UNION {
            IF f \in found \/ IsDirAt(fs, f)
            THEN { Outcome(FALSE, Copied(W), IF f \in found THEN "CopyFault" ELSE "IsADirectory"),
                   Outcome(FALSE,
                           Overlay(WithDirs(Copied(W), {Parent(f)}),
                                   [t \in {f} |-> FileNode(JunkData)]),
                           IF f \in found THEN "CopyFault" ELSE "IsADirectory") }
            ELSE { Outcome(FALSE, Copied(W), "NotADirectory") }
            : f \in (found \ W) \cup bad } : W \in SUBSET found }

RECURSIVE RemoveOutcomes(_, _)
\* The first loop of SafeTransaction::reverse: remove_file on every path, in
\* the HashSet's order; NotFound is skipped, any other error ends reverse.
RemoveOutcomes(todo, fs) ==
    IF todo = {}
    THEN { Outcome(TRUE, fs, "") }
    ELSE UNION {
           IF IsFileAt(fs, p)
           THEN RemoveOutcomes(todo \ {p}, Without(fs, {p}))
                \cup { Outcome(FALSE, fs, "Can't remove new files: RemoveFault") }
           ELSE IF IsDirAt(fs, p)
           THEN { Outcome(FALSE, fs, "Can't remove new files: IsADirectory") }
           ELSE IF Blocked(fs, p)
           THEN { Outcome(FALSE, fs, "Can't remove new files: NotADirectory") }
           ELSE RemoveOutcomes(todo \ {p}, fs)
           : p \in todo }

\* SafeTransaction::reverse(root): remove the transaction's paths, then copy
\* the backup directory over the destination.
\* Mutation: reverse copies the backup back without removing anything.
ReverseOutcomesNoRemove(paths, bk, fs) ==
    CopyOutcomes(bk, << >>, fs)
ReverseOutcomes(paths, bk, fs) ==
    UNION { IF r.ok THEN CopyOutcomes(bk, << >>, r.fs) ELSE {r} :
            r \in RemoveOutcomes(paths, fs) }

\* The errors SafeTransaction::run builds with bail!, as the pieces of the
\* formatted message.
RevertedMsg(r) == << "Fail, but reversed successfully: ", r >>
UnrecoverableMsg(r, e) == << "Fail: ", r, ", and you're fucked: ", e >>
\* Mutation: the message of a reverted run is formatted like the other one.
RevertedMsgAsUnrecoverable(r) == << "Fail: ", r, ", and you're fucked: ", "" >>

NoResult == [state |-> "none", msg |-> << >>]
Ok == [state |-> "ok", msg |-> << >>]
Err(msg) == [state |-> "err", msg |-> msg]

VARIABLES
    tr,          \* the inner transaction
    dest,        \* the tree below the destination root
    bak,         \* what is at the backup path
    pc,          \* build, ran, newfailed, guard, backedup, applyfailed, returned, dropped
    newRes,      \* what SafeTransaction::new returned: "none", "" for Ok, else the error
    backupRes,   \* what backup returned inside run, likewise
    applyRes,    \* what the inner run returned, likewise
    reverseRes,  \* what reverse returned, likewise
    result,      \* what run returned to its caller
    dropLogged,  \* Drop printed "Can't delete the backup"
    dropFault,   \* history: remove_dir_all failed in Drop
    dest0,       \* history: dest before the transaction
    bak0,        \* history: what SafeTransaction::new found at the backup path
    destApplied, \* history: dest when the inner run had returned
    bakSaved,    \* history: the backup tree when backup had returned
    source,      \* what is at the path BasicTransaction::new is called with
    built,       \* what BasicTransaction::new returned
    link,        \* the AddonKey download_link is called on
    remote,      \* the answers of the remote hosts, by requested URL
    answer,      \* what download_link returned, with the requests it sent
    cache,       \* DownloadCache.0: the directory stored for each key
    calls,       \* history: the get_or_download calls made on the cache
    doc,         \* a configuration document (JSON)
    config,      \* the ModpackConfig parsed from doc
    redoc,       \* config serialized again
    unpacked,    \* the tree of an unpacked archive, below the download directory
    listed,      \* the paths find_addons is called with
    override,    \* FolderEntry.addon_folder of the entry that is installed
    candidates,  \* what find_addons returned
    located,     \* what Addons::install returned
    addons,      \* Addons.0: the names of the registry
    order,       \* LoadOrder.0
    fromConfig,  \* history: the Modpack was made from a ModpackConfig
    debug,       \* the build has debug assertions
    lastCall,    \* history: the last change_position call and what it returned
    modlist,     \* what to_modorg_modlist returned
    modsDir,     \* what is under <mo_dir>/mods, by name
    missing,     \* what missing_addons returned
    unknown,     \* what unknown_addons returned
    pack,        \* Modpack.addons with its entries, by name
    archives,    \* what the archive of each key unpacks to
    modsTree,    \* the tree below <mo_dir>/mods
    modsBefore,  \* history: modsTree when the current install began
    staging,     \* the tree below the temporary directory modpack
    pending,     \* the missing addons the loop of install has not reached
    ipc,         \* where Modpack::install is
    outcome,     \* what Modpack::install returned
    runs,        \* the number of install calls so far
    repeated,    \* history: the current install follows one that returned Ok
    appState,    \* TemplateApp.state: the variant of AppState
    op,          \* the worker the Operation of the state holds, 0 for none
    workers,     \* the threads spawned so far, each with its position
    mo2,         \* the tree below <anomaly_dir>/mo2
    backupDir,   \* what is at <anomaly_dir>/BACKUP
    game,        \* the tree below the current directory, the game's
    vanilla,     \* the tree below BACKUP_Vanilla_exes
    game0,       \* history: game before the first InstallModdedExes run
    gameBefore,  \* history: game when the latest InstallModdedExes run began
    exesRuns,    \* the number of InstallModdedExes runs so far
    exesResult   \* what the latest InstallModdedExes run returned

txnVars == << tr, dest, bak, pc, newRes, backupRes, applyRes, reverseRes, result,
              dropLogged, dropFault, dest0, bak0, destApplied, bakSaved >>
srcVars == << source, built >>
netVars == << link, remote, answer >>
cacheVars == << cache, calls >>
docVars == << doc, config, redoc >>
locVars == << unpacked, listed, override, candidates, located >>
ordVars == << addons, order, fromConfig, debug, lastCall, modlist >>
missVars == << modsDir, missing, unknown >>
instVars == << pack, archives, modsTree, modsBefore, staging, pending, ipc,
               outcome, runs, repeated >>
guiVars == << appState, op, workers, mo2, backupDir >>
exeVars == << game, vanilla, game0, gameBefore, exesRuns, exesResult >>
appVars == << instVars, guiVars, exeVars >>
modVars == << locVars, ordVars, missVars, appVars >>

vars == << txnVars, srcVars, netVars, cacheVars, docVars, modVars >>

\* The values the variables of a part have while that part is not used.
NoSource == [kind |-> "absent", tree |-> EmptyTree, denied |-> {}]
SrcIdle == source = NoSource /\ built = NoResult
NetIdle == link = [variant |-> "none"] /\ remote = << >> /\ answer = NoResult
CacheIdle == cache = << >> /\ calls = << >>
DocIdle == doc = NoResult /\ config = NoResult /\ redoc = NoResult
LocIdle ==
    /\ unpacked = << >> /\ listed = << >> /\ override = [some |-> FALSE, v |-> << >>]
    /\ candidates = NoResult /\ located = NoResult
OrdIdle ==
    /\ addons = {} /\ order = << >> /\ fromConfig = FALSE /\ debug = FALSE
    /\ lastCall = NoResult /\ modlist = NoResult
MissIdle == modsDir = << >> /\ missing = NoResult /\ unknown = NoResult
InstIdle ==
    /\ pack = << >> /\ archives = << >> /\ modsTree = << >> /\ modsBefore = << >>
    /\ staging = << >> /\ pending = << >> /\ ipc = "idle" /\ outcome = NoResult
    /\ runs = 0 /\ repeated = FALSE
GuiIdle ==
    /\ appState = "Normal" /\ op = 0 /\ workers = << >>
    /\ mo2 = << >> /\ backupDir = Absent
ExeIdle ==
    /\ game = << >> /\ vanilla = << >> /\ game0 = << >> /\ gameBefore = << >>
    /\ exesRuns = 0 /\ exesResult = NoResult
AppIdle == InstIdle /\ GuiIdle /\ ExeIdle
ModIdle == LocIdle /\ OrdIdle /\ MissIdle /\ AppIdle

RECURSIVE Nodes(_)
\* The number of nodes of the source trees of a transaction.
Nodes(txn) ==
    CASE txn.kind = "basic" -> Cardinality(DOMAIN txn.files)
      [] txn.kind = "indir" -> Nodes(txn.transaction)
      [] txn.kind = "complex" ->
            IF txn.parts = << >> THEN 0
            ELSE Nodes(Head(txn.parts)) + Nodes(Complex(Tail(txn.parts)))

\* The transactions over a source tree of at most n nodes, which add can be
\* called with: the i-th member holds content SrcData(i).
Parts(i, n) ==
    { Basic(t) : t \in SrcTrees(PathsU, SrcData(i), n) }
    \cup { InDir(Basic(t), InDirName) : t \in SrcTrees(InnerPathsU, SrcData(i), n) }

BakStates ==
    { Absent, AFile, ADir(EmptyTree),
      ADir([p \in {<<"a">>} |-> FileNode(StaleData)]),
      ADir([p \in {<<"d">>} |-> DirNode]) }

Init ==
    /\ tr \in {ComplexNew} \cup Parts(1, MaxSrcNodes)
    /\ dest \in TreesOver(PathsU, OldData)
    /\ bak = Absent
    /\ pc = "build"
    /\ newRes = "none"
    /\ backupRes = "none"
    /\ applyRes = "none"
    /\ reverseRes = "none"
    /\ result = NoResult
    /\ dropLogged = FALSE
    /\ dropFault = FALSE
    /\ dest0 = dest
    /\ bak0 = bak
    /\ destApplied = dest
    /\ bakSaved = EmptyTree
    /\ SrcIdle /\ NetIdle /\ CacheIdle /\ DocIdle /\ ModIdle

\* ComplexTransaction::add.
AddPart ==
    /\ pc = "build"
    /\ tr.kind = "complex"
    /\ Len(tr.parts) < MaxParts
    /\ \E part \in Parts(Len(tr.parts) + 1, MaxSrcNodes - Nodes(tr)) : tr' = Add(tr, part)
    /\ UNCHANGED << dest, bak, pc, newRes, backupRes, applyRes, reverseRes, result,
                    dropLogged, dropFault, dest0, bak0, destApplied, bakSaved >>
    /\ UNCHANGED << srcVars, netVars, cacheVars, docVars, modVars >>

\* Transaction::run called on the transaction itself, without a guard.
RunDirect ==
    /\ pc = "build"
    /\ \E o \in RunOutcomes(tr, << >>, dest) :
         /\ dest' = o.fs
         /\ destApplied' = o.fs
         /\ applyRes' = o.err
         /\ result' = IF o.ok THEN Ok ELSE Err(<<o.err>>)
    /\ pc' = "ran"
    /\ UNCHANGED << tr, bak, newRes, backupRes, reverseRes, dropLogged, dropFault,
                    dest0, bak0, bakSaved >>
    /\ UNCHANGED << srcVars, netVars, cacheVars, docVars, modVars >>

\* SafeTransaction::new(tr, backup).  Nothing looks at the backup path before
\* new does: what new finds there (found) is its input.
New ==
    /\ pc = "build"
    /\ \E found \in BakStates :
         /\ bak0' = found
         /\ IF found.kind = "absent"
            THEN /\ bak' = ADir(EmptyTree)
                 /\ newRes' = ""
            ELSE /\ bak' = found
                 /\ newRes' = CheckBackupDir(found)
    /\ pc' = IF newRes' = "" THEN "guard" ELSE "newfailed"
    /\ UNCHANGED << tr, dest, backupRes, applyRes, reverseRes, result, dropLogged,
                    dropFault, dest0, destApplied, bakSaved >>
    /\ UNCHANGED << srcVars, netVars, cacheVars, docVars, modVars >>

\* SafeTransaction::run, first statement: self.backup(root)?.
\* Mutation: the result of backup is dropped and run goes on to the inner run.
RunBackupUnchecked ==
    /\ pc = "guard"
    /\ \E o \in BackupOutcomes(RelPaths(tr), dest, bak.tree) :
         /\ bak' = ADir(o.fs)
         /\ bakSaved' = o.fs
         /\ backupRes' = o.err
         /\ pc' = "backedup"
         /\ result' = IF o.ok THEN result ELSE Err(<<o.err>>)
    /\ UNCHANGED << tr, dest, newRes, applyRes, reverseRes, dropLogged, dropFault,
                    dest0, bak0, destApplied >>
    /\ UNCHANGED << srcVars, netVars, cacheVars, docVars, modVars >>
RunBackup ==
    /\ pc = "guard"
    /\ \E o \in BackupOutcomes(RelPaths(tr), dest, bak.tree) :
         /\ bak' = ADir(o.fs)
         /\ bakSaved' = o.fs
         /\ backupRes' = o.err
         /\ pc' = IF o.ok THEN "backedup" ELSE "returned"
         /\ result' = IF o.ok THEN result ELSE Err(<<o.err>>)
    /\ UNCHANGED << tr, dest, newRes, applyRes, reverseRes, dropLogged, dropFault,
                    dest0, bak0, destApplied >>
    /\ UNCHANGED << srcVars, netVars, cacheVars, docVars, modVars >>

\* SafeTransaction::run, second statement: self.transaction.run(root).
RunApply ==
    /\ pc = "backedup"
    /\ \E o \in RunOutcomes(tr, << >>, dest) :
         /\ dest' = o.fs
         /\ destApplied' = o.fs
         /\ applyRes' = o.err
         /\ pc' = IF o.ok THEN "returned" ELSE "applyfailed"
         /\ result' = IF o.ok THEN Ok ELSE result
    /\ UNCHANGED << tr, bak, newRes, backupRes, reverseRes, dropLogged, dropFault,
                    dest0, bak0, bakSaved >>
    /\ UNCHANGED << srcVars, netVars, cacheVars, docVars, modVars >>

\* SafeTransaction::run, the Err(r) branch: self.reverse(root) and the bail!.
\* Mutation: both branches return the same kind of message.
RunReverseSameMsg ==
    /\ pc = "applyfailed"
    /\ \E o \in ReverseOutcomes(RelPaths(tr), bak.tree, dest) :
         /\ dest' = o.fs
         /\ reverseRes' = o.err
         /\ result' = IF o.ok THEN Err(RevertedMsgAsUnrecoverable(applyRes))
                      ELSE Err(UnrecoverableMsg(applyRes, o.err))
    /\ pc' = "returned"
    /\ UNCHANGED << tr, bak, newRes, backupRes, applyRes, dropLogged, dropFault,
                    dest0, bak0, destApplied, bakSaved >>
    /\ UNCHANGED << srcVars, netVars, cacheVars, docVars, modVars >>
RunReverse ==
    /\ pc = "applyfailed"
    /\ \E o \in ReverseOutcomes(RelPaths(tr), bak.tree, dest) :
         /\ dest' = o.fs
         /\ reverseRes' = o.err
         /\ result' = IF o.ok THEN Err(RevertedMsg(applyRes))
                      ELSE Err(UnrecoverableMsg(applyRes, o.err))
    /\ pc' = "returned"
    /\ UNCHANGED << tr, bak, newRes, backupRes, applyRes, dropLogged, dropFault,
                    dest0, bak0, destApplied, bakSaved >>
    /\ UNCHANGED << srcVars, netVars, cacheVars, docVars, modVars >>

\* Drop for SafeTransaction: remove_dir_all(backup_dir), a failure printed and
\* otherwise ignored.  The guard is dropped after run has returned, or without
\* run having been called.  Whether the removal fails is the environment's.
\* Mutation: Drop removes the backup only when the inner run did not fail.
DropKeepAfterFailure ==
    /\ pc \in {"guard", "returned"}
    /\ \E fault \in BOOLEAN :
         /\ dropFault' = fault
         /\ IF fault
            THEN bak' = bak /\ dropLogged' = TRUE
            ELSE /\ bak' = IF applyRes \in {"none", ""} THEN Absent ELSE bak
                 /\ dropLogged' = FALSE
    /\ pc' = "dropped"
    /\ UNCHANGED << tr, dest, newRes, backupRes, applyRes, reverseRes, result, dest0,
                    bak0, destApplied, bakSaved >>
    /\ UNCHANGED << srcVars, netVars, cacheVars, docVars, modVars >>
Drop ==
    /\ pc \in {"guard", "returned"}
    /\ \E fault \in BOOLEAN :
         /\ dropFault' = fault
         /\ IF fault
            THEN bak' = bak /\ dropLogged' = TRUE
            ELSE bak' = Absent /\ dropLogged' = FALSE
    /\ pc' = "dropped"
    /\ UNCHANGED << tr, dest, newRes, backupRes, applyRes, reverseRes, result, dest0,
                    bak0, destApplied, bakSaved >>
    /\ UNCHANGED << srcVars, netVars, cacheVars, docVars, modVars >>

Next ==
    \/ AddPart
    \/ RunDirect
    \/ New
    \/ RunBackup
    \/ RunApply
    \/ RunReverse
    \/ Drop

Spec == Init /\ [][Next]_vars

\* ------------------------------------------------------------------ claims

\* The content run leaves at the path p of relative_file_paths when it
\* succeeds on its own: the content of the last member that has p.
RECURSIVE SrcContent(_, _)
SrcContent(txn, p) ==
    CASE txn.kind = "basic" -> txn.files[p].data
      [] txn.kind = "indir" ->
            SrcContent(txn.transaction, SubSeq(p, Len(txn.dir) + 1, Len(p)))
      [] txn.kind = "complex" ->
            LET last == CHOOSE i \in 1..Len(txn.parts) :
                          /\ p \in RelPaths(txn.parts[i])
                          /\ \A j \in (i + 1)..Len(txn.parts) : p \notin RelPaths(txn.parts[j])
            IN  SrcContent(txn.parts[last], p)

ApplyFailed == applyRes \notin {"none", ""}
ApplySucceeded == applyRes = ""
RunReturned == pc \in {"returned", "dropped"}

\* C1 (rollback exactness): when the inner run of a guarded transaction has
\* failed, after writing any subset of its files, and reverse has returned Ok,
\* the destination holds exactly the files it held before the transaction,
\* each with its old content: overwritten files are restored, files that did
\* not exist are absent again, files outside relative_file_paths are as they
\* were.
C1_RollbackExact ==
    (RunReturned /\ ApplyFailed /\ reverseRes = "") => FilesOf(dest) = FilesOf(dest0)

\* C1 witness: a reverted run in which the failed apply had overwritten one
\* file and created another, while a third path of the transaction was absent
\* when reverse removed it.
C1_Witness ==
    /\ pc = "returned" /\ ApplyFailed /\ reverseRes = ""
    /\ \E p, q, r \in RelPaths(tr) :
         /\ IsFileAt(dest0, p) /\ IsFileAt(destApplied, p) /\ destApplied[p] # dest0[p]
         /\ ~Exists(dest0, q) /\ IsFileAt(destApplied, q)
         /\ ~Exists(destApplied, r)

\* C2 (overwrite-merge): after a run that returned Ok, called directly or by
\* SafeTransaction::run, every path of relative_file_paths is a file of the
\* destination with the source's content, and every file the destination had
\* at another path is still there with its content; no run, successful or
\* not, removes a file of the destination.
C2_MergeResult ==
    /\ (pc \in {"ran", "returned", "dropped"} /\ ApplySucceeded) =>
         /\ \A p \in RelPaths(tr) : IsFileAt(dest, p) /\ dest[p].data = SrcContent(tr, p)
         /\ \A p \in FilePaths(dest0) \ RelPaths(tr) : IsFileAt(dest, p) /\ dest[p] = dest0[p]
    /\ FilePaths(dest0) \subseteq FilePaths(destApplied)

\* C2 witness: a guarded run that succeeded, overwrote a file, added a file
\* and had a destination file outside its paths.
C2_Witness ==
    /\ pc = "returned" /\ result = Ok
    /\ \E p, q \in RelPaths(tr) : IsFileAt(dest0, p) /\ ~Exists(dest0, q)
    /\ FilePaths(dest0) \ RelPaths(tr) # {}

ReverseFailed == reverseRes \notin {"none", ""}

\* C3 (the backup survives an unrecoverable failure): when the inner run has
\* failed and reverse has failed too, the backup directory and the files the
\* backup phase copied into it still exist once the guard has been dropped.
C3_BackupSurvives ==
    (pc = "dropped" /\ ApplyFailed /\ ReverseFailed) =>
        /\ bak.kind = "dir"
        /\ \A p \in FilePaths(bakSaved) : IsFileAt(bak.tree, p) /\ bak.tree[p] = bakSaved[p]

\* C4 (backup directory lifetime): once the guard has been dropped after a
\* run that succeeded, after a run whose failed apply was reverted, or without
\* any run, the backup directory is gone unless its removal itself failed; a
\* failed removal is only printed: what run returned to the caller is what it
\* was.
C4_BackupRemoved ==
    (pc = "dropped" /\ ~(ApplyFailed /\ ReverseFailed) /\ backupRes \in {"none", ""}) =>
        /\ ~dropFault => bak = Absent
        /\ dropFault => dropLogged
        /\ backupRes = "none" => result = NoResult
        /\ ApplySucceeded => result = Ok
        /\ (ApplyFailed /\ reverseRes = "") => result = Err(RevertedMsg(applyRes))

\* C4 witness: the guard dropped after a reverted run whose backup phase had
\* copied files, and the backup directory is gone.
C4_Witness ==
    /\ pc = "dropped" /\ ApplyFailed /\ reverseRes = ""
    /\ FilePaths(bakSaved) # {}
    /\ bak = Absent

\* What a caller can tell from the error run returned: the fixed text the
\* message starts with.
Kind(res) ==
    IF res.state # "err" THEN res.state
    ELSE IF res.msg[1] = "Fail, but reversed successfully: " THEN "reverted"
    ELSE IF res.msg[1] = "Fail: " THEN "unrecoverable"
    ELSE "other"

Pieces(res) == { res.msg[i] : i \in 1..Len(res.msg) }

\* C5 (outcome of a guarded run): run returns Ok exactly when the inner run
\* returned Ok; when the inner run failed and reverse succeeded the error is
\* the "reversed successfully" one and holds the inner error; when reverse
\* failed it is the other one and holds the inner error and the error of
\* reverse; a caller tells the two apart by the message.
C5_RunOutcome ==
    RunReturned =>
        /\ result = Ok <=> ApplySucceeded
        /\ (ApplyFailed /\ reverseRes = "") =>
               Kind(result) = "reverted" /\ applyRes \in Pieces(result)
        /\ (ApplyFailed /\ ReverseFailed) =>
               /\ Kind(result) = "unrecoverable"
               /\ applyRes \in Pieces(result)
               /\ reverseRes \in Pieces(result)
        /\ (pc = "returned" /\ ApplyFailed) => reverseRes # "none"

\* C5 witness: a run whose apply failed and whose reverse succeeded.
C5_Witness ==
    pc = "returned" /\ ApplyFailed /\ reverseRes = "" /\ Kind(result) = "reverted"

\* The text of the backup directory's path, as an error message names it.
BackupPathText == "<backup_dir>"

\* C6 (the unrecoverable error names the backup directory): when the inner
\* run and reverse have both failed, the message of the error run returns
\* holds the path of the backup directory.
C6_ErrorNamesBackup ==
    (RunReturned /\ ApplyFailed /\ ReverseFailed) => BackupPathText \in Pieces(result)

IsCleanTarget(b) == b.kind = "absent" \/ (b.kind = "dir" /\ DOMAIN b.tree = {})

C8_BackupContent ==
    /\ backupRes = "" =>
         FilesOf(bakSaved) =
           [p \in { q \in RelPaths(tr) : IsFileAt(dest0, q) } |-> dest0[p].data]
    /\ pc = "backedup" => bak = ADir(bakSaved) /\ dest = dest0

\* C8 witness: a successful backup phase for a transaction with a path that
\* was a file of the destination and a path that was not.
C8_Witness ==
    /\ pc = "backedup"
    /\ \E p, q \in RelPaths(tr) : IsFileAt(dest0, p) /\ ~Exists(dest0, q)
    /\ FilePaths(dest0) \ RelPaths(tr) # {}

\* C9 (exact file-set accounting): after a BasicTransaction has run with
\* success on an empty destination, the files of the destination are exactly
\* relative_file_paths: every file of the source at any depth, relative to
\* the root, and no directory.
C9_FileSetAccounting ==
    (tr.kind = "basic" /\ dest0 = EmptyTree /\ pc = "ran" /\ result = Ok) =>
        /\ FilePaths(dest) = RelPaths(tr)
        /\ \A p \in RelPaths(tr) : dest[p] = tr.files[p]

\* C9 witness: such a run for a source with a directory and a file below it.
C9_Witness ==
    /\ tr.kind = "basic" /\ dest0 = EmptyTree /\ pc = "ran" /\ result = Ok
    /\ \E p \in RelPaths(tr) : Len(p) > 1
    /\ DirPaths(tr.files) # {}

\* The members of a ComplexTransaction that have the path p.
Having(c, p) == { i \in 1..Len(c.parts) : p \in RelPaths(c.parts[i]) }
Last(S) == CHOOSE i \in S : \A j \in S : j <= i

\* C10 (composite): relative_file_paths of a ComplexTransaction is the union
\* of its members' paths (stated where the transaction is built: nothing
\* changes it afterwards), its members are in the order they were added (the
\* i-th added holds the content SrcData(i)), and after a successful run every
\* path holds the content of the last member that has it.
C10_Composite ==
    tr.kind = "complex" =>
        /\ pc = "build" =>
             \A p \in PathsU :
                p \in RelPaths(tr) <=> \E i \in 1..Len(tr.parts) : p \in RelPaths(tr.parts[i])
        /\ (pc \in {"ran", "returned", "dropped"} /\ ApplySucceeded) =>
             \A p \in RelPaths(tr) :
                IsFileAt(dest, p) /\ dest[p].data = SrcData(Last(Having(tr, p)))

\* C10 witness: a successful run of two members that have a path in common.
C10_Witness ==
    /\ tr.kind = "complex" /\ Len(tr.parts) = 2
    /\ pc = "ran" /\ result = Ok
    /\ \E p \in RelPaths(tr.parts[1]) \cap RelPaths(tr.parts[2]) : dest[p].data = SrcData(2)

\* C11 (nested): relative_file_paths of InDir(T, dir) is dir/p for every path
\* p of T; run writes T's files below root/dir, which it creates when it is
\* not there, and no file anywhere else: whatever the outcome, a file of the
\* destination outside the reported paths is a file the destination had, as
\* it was, and after a run that returned Ok every reported path holds T's
\* content, so that on an empty destination the files are exactly the
\* reported paths.
C11_Nested ==
    tr.kind = "indir" =>
        /\ RelPaths(tr) = { tr.dir \o p : p \in RelPaths(tr.transaction) }
        /\ pc = "ran" =>
              /\ \A p \in FilePaths(dest) \ RelPaths(tr) :
                    IsFileAt(dest0, p) /\ dest[p] = dest0[p]
              /\ result = Ok =>
                    /\ IsDirAt(dest, tr.dir)
                    /\ \A p \in RelPaths(tr) :
                          /\ IsFileAt(dest, p)
                          /\ dest[p].data = SrcContent(tr.transaction,
                                                       SubSeq(p, Len(tr.dir) + 1, Len(p)))
                    /\ dest0 = EmptyTree => FilePaths(dest) = RelPaths(tr)

\* C11 witness: a successful run of an InDir with a file, on a destination
\* that has a file of its own and not the prefix directory.
C11_Witness ==
    /\ tr.kind = "indir" /\ pc = "ran" /\ result = Ok
    /\ RelPaths(tr) # {}
    /\ ~Exists(dest0, tr.dir)
    /\ FilePaths(dest0) # {}

\* The directories run creates below its root when they are not there: the
\* directories of the sources and the prefixes of InDir.
RECURSIVE SrcDirs(_)
SrcDirs(txn) ==
    CASE txn.kind = "basic" -> DirPaths(txn.files)
      [] txn.kind = "indir" ->
            Ancestors(txn.dir) \cup {txn.dir}
            \cup { txn.dir \o q : q \in SrcDirs(txn.transaction) }
      [] txn.kind = "complex" ->
            UNION { SrcDirs(txn.parts[i]) : i \in 1..Len(txn.parts) }

\* run has been called on the guard of a transaction without files.
EmptyGuardedRun == RelPaths(tr) = {} /\ backupRes # "none"

\* C12 as stated (empty source): when the inner transaction has no files,
\* SafeTransaction::run copies nothing to the backup directory, leaves the
\* destination as it was and returns Ok.
C12_EmptySourceNoop ==
    (EmptyGuardedRun /\ RunReturned) =>
        /\ bakSaved = EmptyTree
        /\ dest = dest0
        /\ result = Ok

\* C12 amended: when the inner transaction has no files, run copies nothing
\* to the backup directory and leaves every node of the destination as it
\* was; it adds nothing but directories of the source.  When every directory
\* of the source is a directory of the destination already (or the source has
\* none) the destination is unchanged and run returns Ok; otherwise run
\* returns Ok or, when it cannot create a directory, the "reversed
\* successfully" error.
C12_EmptySource ==
    EmptyGuardedRun =>
        /\ backupRes = "" /\ bakSaved = EmptyTree
        /\ pc = "backedup" => bak = ADir(EmptyTree) /\ dest = dest0
        /\ RunReturned =>
              /\ \A p \in DOMAIN dest0 : p \in DOMAIN dest /\ dest[p] = dest0[p]
              /\ \A p \in DOMAIN dest \ DOMAIN dest0 : p \in SrcDirs(tr) /\ dest[p].isdir
              /\ Kind(result) \in {"ok", "reverted"}
              /\ (\A q \in SrcDirs(tr) : IsDirAt(dest0, q)) => result = Ok /\ dest = dest0

\* C12 witness: a guarded run of an empty source on a destination with
\* files has returned Ok and changed nothing.
C12_Witness ==
    /\ EmptyGuardedRun /\ pc = "returned" /\ result = Ok
    /\ SrcDirs(tr) = {}
    /\ FilePaths(dest0) # {} /\ dest = dest0
    /\ bak = ADir(EmptyTree)

\* ---------------------------------------------------- BasicTransaction::new

\* The variables of the transaction engine while it is not used.
TxnIdle ==
    /\ tr = ComplexNew /\ dest = EmptyTree /\ bak = Absent /\ pc = "build"
    /\ newRes = "none" /\ backupRes = "none" /\ applyRes = "none" /\ reverseRes = "none"
    /\ result = NoResult /\ dropLogged = FALSE /\ dropFault = FALSE
    /\ dest0 = EmptyTree /\ bak0 = Absent /\ destApplied = EmptyTree /\ bakSaved = EmptyTree

\* What can be at the path new is called with: nothing, a file, or a
\* directory with its tree; denied holds the directories (the root is << >>)
\* whose entries cannot be listed.
Sources ==
    { NoSource, [kind |-> "file", tree |-> EmptyTree, denied |-> {}] }
    \cup UNION { { [kind |-> "dir", tree |-> t, denied |-> D] :
                     D \in SUBSET (DirPaths(t) \cup {<< >>}) } :
                 t \in SrcTrees(PathsU, SrcData(1), MaxSrcNodes) }

\* walkdir::WalkDir::new(p): the walk lists the root and every directory it
\* reaches, which are the directories below directories it could list.
Listed(s) ==
    { q \in DirPaths(s.tree) \cup {<< >>} :
        \A a \in (Ancestors(q) \cup {<< >>}) \ {q} : a \notin s.denied }

\* The items of the walk that are Err: one for each directory the walk
\* reaches and cannot list.
WalkErrors(s) == Listed(s) \cap s.denied

Built(txn) == [state |-> "ok", tr |-> txn]

\* BasicTransaction::new(path).
\* Mutation: new does not walk the tree.
BasicNewUnchecked(s) ==
    IF s.kind # "dir" THEN Err(<<"Path is not a directory">>) ELSE Built(Basic(s.tree))
BasicNew(s) ==
    IF s.kind # "dir" THEN Err(<<"Path is not a directory">>)
    ELSE IF WalkErrors(s) # {} THEN Err(<<"walkdir::Error">>)
    ELSE Built(Basic(s.tree))

InitSource ==
    /\ source \in Sources
    /\ built = NoResult
    /\ TxnIdle /\ NetIdle /\ CacheIdle /\ DocIdle /\ ModIdle

\* A call of BasicTransaction::new on the path.
Construct ==
    /\ built = NoResult
    /\ built' = BasicNew(source)
    /\ UNCHANGED << source, txnVars, netVars, cacheVars, docVars, modVars >>

NextSource == Construct

SpecSource == InitSource /\ [][NextSource]_vars

\* C13 (eager source validation): BasicTransaction::new returns an error, and
\* no transaction, when the path is not a directory or when a directory of the
\* tree, the root included, cannot be listed; it returns a transaction, over
\* the tree at the path, exactly when the path is a directory and every
\* directory below it could be listed.
C13_EagerValidation ==
    built # NoResult =>
        /\ built.state \in {"ok", "err"}
        /\ built.state = "ok" <=> (source.kind = "dir" /\ source.denied = {})
        /\ built.state = "ok" => built.tr = Basic(source.tree)
        /\ source.kind # "dir" => built = Err(<<"Path is not a directory">>)

\* C13 witness: new has failed on a directory whose root could be listed and
\* that has a file, because a directory below the root could not be listed.
C13_Witness ==
    /\ built.state = "err"
    /\ source.kind = "dir" /\ << >> \notin source.denied /\ source.denied # {}
    /\ FilePaths(source.tree) # {}

\* ------------------------------------------------------------------ strings

\* A string is the sequence of its characters.
\* the text latest
Latest ==
    << "l", "a", "t", "e", "s", "t" >>
\* the text releases
Releases ==
    << "r", "e", "l", "e", "a", "s", "e", "s" >>
\* the text $VERSION
DollarVersion ==
    << "$", "V", "E", "R", "S", "I", "O", "N" >>
\* the text /
Slash ==
    << "/" >>
\* the text https://github.com/
GithubBase ==
    << "h", "t", "t", "p", "s", ":", "/", "/", "g", "i", "t", "h", "u", "b",
       ".", "c", "o", "m", "/" >>
\* the text /releases/latest
ReleasesLatest ==
    << "/", "r", "e", "l", "e", "a", "s", "e", "s", "/", "l", "a", "t", "e",
       "s", "t" >>
\* the text /releases/download/
ReleasesDownload ==
    << "/", "r", "e", "l", "e", "a", "s", "e", "s", "/", "d", "o", "w", "n",
       "l", "o", "a", "d", "/" >>
\* the text https://www.moddb.com/mods/stalker-anomaly/addons/
URL_MODDB ==
    << "h", "t", "t", "p", "s", ":", "/", "/", "w", "w", "w", ".", "m", "o",
       "d", "d", "b", ".", "c", "o", "m", "/", "m", "o", "d", "s", "/", "s",
       "t", "a", "l", "k", "e", "r", "-", "a", "n", "o", "m", "a", "l", "y",
       "/", "a", "d", "d", "o", "n", "s", "/" >>
\* the text https://www.moddb.com
ModdbBase ==
    << "h", "t", "t", "p", "s", ":", "/", "/", "w", "w", "w", ".", "m", "o",
       "d", "d", "b", ".", "c", "o", "m" >>
\* the text addons/start
DownloadMarker ==
    << "a", "d", "d", "o", "n", "s", "/", "s", "t", "a", "r", "t" >>
\* the text moddb.com/downloads/mirror
MirrorMarker ==
    << "m", "o", "d", "d", "b", ".", "c", "o", "m", "/", "d", "o", "w", "n",
       "l", "o", "a", "d", "s", "/", "m", "i", "r", "r", "o", "r" >>
\* the text href="
HrefOpen ==
    << "h", "r", "e", "f", "=", "\"" >>

\* str::contains.
Contains(t, s) == \E i \in 0..(Len(t) - Len(s)) : SubSeq(t, i + 1, i + Len(s)) = s

RECURSIVE Replace(_, _, _)
\* str::replace(pat, by): every match of pat, found from left to right and
\* not overlapping, replaced by by.
Replace(s, pat, by) ==
    IF Len(s) < Len(pat) THEN s
    ELSE IF SubSeq(s, 1, Len(pat)) = pat
    THEN by \o Replace(SubSeq(s, Len(pat) + 1, Len(s)), pat, by)
    ELSE <<Head(s)>> \o Replace(Tail(s), pat, by)

\* Url::path_segments().last(): what follows the last '/' of the path.
LastSegment(path) ==
    LET at == { i \in 1..Len(path) : path[i] = "/" }
    IN  IF at = {} THEN path
        ELSE SubSeq(path, (CHOOSE i \in at : \A j \in at : j <= i) + 1, Len(path))

RECURSIVE Hrefs(_)
\* LINKS_REGEX.captures_iter(text), group 1 of each match of href="([^"]*)":
\* the texts between href=" and the next quote, from left to right.
Hrefs(text) ==
    IF Len(text) < Len(HrefOpen) THEN << >>
    ELSE IF SubSeq(text, 1, Len(HrefOpen)) # HrefOpen THEN Hrefs(Tail(text))
    ELSE LET rest == SubSeq(text, Len(HrefOpen) + 1, Len(text))
             quotes == { i \in 1..Len(rest) : rest[i] = "\"" }
         IN  IF quotes = {} THEN << >>
             ELSE LET close == CHOOSE i \in quotes : \A j \in quotes : i <= j
                  IN  <<SubSeq(rest, 1, close - 1)>>
                      \o Hrefs(SubSeq(rest, close + 1, Len(rest)))

\* ----------------------------------------------------------------- AddonKey

\* The variants of AddonKey, each with its link struct.
Moddb(addon_link, updated) ==
    [variant |-> "Moddb", link |-> [addon_link |-> addon_link, updated |-> updated]]
Github(repo, tag, filename) ==
    [variant |-> "Github", link |-> [repo |-> repo, tag |-> tag, filename |-> filename]]
Url(url) == [variant |-> "Url", link |-> [url |-> url]]

\* ----------------------------------------------------------- remote hosts

\* What CLIENT.get(url) / CLIENT.head(url) meets: whether send() returns Ok,
\* whether the status of the final response is a success, the path of the
\* final URL after the redirects, whether text() returns Ok, and the body,
\* with the link targets the page was written with.
Response(sent, success, path, body, links, text) ==
    [sent |-> sent, success |-> success, path |-> path, body |-> body,
     links |-> links, text |-> text]

\* No host answers: send() returns Err.
Unreachable == Response(FALSE, FALSE, << >>, FALSE, << >>, << >>)

\* The response to a request for url: a URL the remote has no answer for is
\* unreachable.
Respond(rem, url) == IF url \in DOMAIN rem THEN rem[url] ELSE Unreachable

Request(method, url) == [method |-> method, url |-> url]

\* Result<String> of get_download_url, with the requests sent on the way.
Resolved(url, requests) ==
    [state |-> "ok", url |-> url, msg |-> "", requests |-> requests]
Failed(msg, requests) ==
    [state |-> "err", url |-> << >>, msg |-> msg, requests |-> requests]

\* UrlLink::get_download_url.
UrlGetDownloadUrl(l) == Resolved(l.url, << >>)

GithubLatestUrl(l) == GithubBase \o l.repo \o ReleasesLatest

\* GithubLink::fetch_tag.
\* Mutation: the status of the response is not looked at.
FetchTagAnyStatus(l, rem) ==
    IF l.tag # Latest
    THEN [state |-> "ok", tag |-> l.tag, requests |-> << >>]
    ELSE LET req == << Request("HEAD", GithubLatestUrl(l)) >>
             resp == Respond(rem, GithubLatestUrl(l))
         IN  IF ~resp.sent THEN Failed("reqwest::Error", req)
             ELSE IF LastSegment(resp.path) = Releases
             THEN Failed("No releases in repo", req)
             ELSE [state |-> "ok", tag |-> LastSegment(resp.path), requests |-> req]
FetchTag(l, rem) ==
    IF l.tag # Latest
    THEN [state |-> "ok", tag |-> l.tag, requests |-> << >>]
    ELSE LET req == << Request("HEAD", GithubLatestUrl(l)) >>
             resp == Respond(rem, GithubLatestUrl(l))
         IN  IF ~resp.sent THEN Failed("reqwest::Error", req)
             ELSE IF ~resp.success THEN Failed("No such repo", req)
             ELSE IF LastSegment(resp.path) = Releases
             THEN Failed("No releases in repo", req)
             ELSE [state |-> "ok", tag |-> LastSegment(resp.path), requests |-> req]

RECURSIVE VersionTrimAll(_)
\* tag.strip_prefix('v'), the tag itself when it does not start with v.
\* Mutation: every leading v is removed (trim_start_matches).
VersionTrimAll(tag) ==
    IF tag # << >> /\ Head(tag) = "v" THEN VersionTrimAll(Tail(tag)) ELSE tag
Version(tag) == IF tag # << >> /\ Head(tag) = "v" THEN Tail(tag) ELSE tag

\* GithubLink::get_download_url.
GithubGetDownloadUrl(l, rem) ==
    LET t == FetchTag(l, rem)
    IN  IF t.state # "ok" THEN t
        ELSE Resolved(GithubBase \o l.repo \o ReleasesDownload \o t.tag \o Slash
                        \o Replace(l.filename, DollarVersion, Version(t.tag)),
                      t.requests)

\* Iterator::find on the captured links: the first that contains the marker,
\* << >> standing for None (no link is empty: each contains a marker).
\* Mutation: the last such link is taken.
LastWith(links, marker) ==
    LET at == { i \in 1..Len(links) : Contains(links[i], marker) }
    IN  IF at = {} THEN << >> ELSE links[CHOOSE i \in at : \A j \in at : j <= i]
FirstWith(links, marker) ==
    LET at == { i \in 1..Len(links) : Contains(links[i], marker) }
    IN  IF at = {} THEN << >> ELSE links[CHOOSE i \in at : \A j \in at : i <= j]

\* ModdbLink::get_download_url (actions.rs has a copy, scrape_moddb_url).
\* Mutation: the page of the addon is requested for its updated value.
ModdbGetDownloadUrlOfUpdate(l, rem) ==
    LET url1 == URL_MODDB \o l.addon_link \o Slash \o l.updated
        req1 == << Request("GET", url1) >>
        resp1 == Respond(rem, url1)
        start == FirstWith(Hrefs(resp1.text), DownloadMarker)
        url2 == ModdbBase \o start
        req2 == Append(req1, Request("GET", url2))
        resp2 == Respond(rem, url2)
        mirror == FirstWith(Hrefs(resp2.text), MirrorMarker)
    IN  IF ~resp1.sent \/ ~resp1.body THEN Failed("reqwest::Error", req1)
        ELSE IF start = << >> THEN Failed("Couldn't find moddb download button", req1)
        ELSE IF ~resp2.sent \/ ~resp2.body THEN Failed("reqwest::Error", req2)
        ELSE IF mirror = << >> THEN Failed("Couldn't find moddb mirror link", req2)
        ELSE Resolved(mirror, req2)
ModdbGetDownloadUrl(l, rem) ==
    LET url1 == URL_MODDB \o l.addon_link
        req1 == << Request("GET", url1) >>
        resp1 == Respond(rem, url1)
        start == FirstWith(Hrefs(resp1.text), DownloadMarker)
        url2 == ModdbBase \o start
        req2 == Append(req1, Request("GET", url2))
        resp2 == Respond(rem, url2)
        mirror == FirstWith(Hrefs(resp2.text), MirrorMarker)
    IN  IF ~resp1.sent \/ ~resp1.body THEN Failed("reqwest::Error", req1)
        ELSE IF start = << >> THEN Failed("Couldn't find moddb download button", req1)
        ELSE IF ~resp2.sent \/ ~resp2.body THEN Failed("reqwest::Error", req2)
        ELSE IF mirror = << >> THEN Failed("Couldn't find moddb mirror link", req2)
        ELSE Resolved(mirror, req2)

\* AddonKey::download_link.
DownloadLink(key, rem) ==
    CASE key.variant = "Moddb" -> ModdbGetDownloadUrl(key.link, rem)
      [] key.variant = "Url" -> UrlGetDownloadUrl(key.link)
      [] key.variant = "Github" -> GithubGetDownloadUrl(key.link, rem)

\* ------------------------------------------- the keys and hosts of the model

\* GithubLink.repo: the text org/name
RepoName ==
    << "o", "r", "g", "/", "n", "a", "m", "e" >>
\* A tag: v2.4.3
TagV243 ==
    << "v", "2", ".", "4", ".", "3" >>
\* A tag without a leading v: 1.0
Tag10 ==
    << "1", ".", "0" >>
\* A tag with two leading v: vv1
TagVV1 ==
    << "v", "v", "1" >>
\* The tag v
TagV ==
    << "v" >>
\* A piece of a filename: Pack-
PiecePack ==
    << "P", "a", "c", "k", "-" >>
\* A piece of a filename: .7z
Piece7z ==
    << ".", "7", "z" >>
\* A piece of a filename, the start of a placeholder: $V
PieceDollarV ==
    << "$", "V" >>
\* ModdbLink.addon_link: acm
AddonName ==
    << "a", "c", "m" >>
\* ModdbLink.updated: Aug8
Updated ==
    << "A", "u", "g", "8" >>
\* ModdbLink.updated: Sep9
OtherUpdated ==
    << "S", "e", "p", "9" >>
\* UrlLink.url: http://h/a.zip
ArchiveUrl ==
    << "h", "t", "t", "p", ":", "/", "/", "h", "/", "a", ".", "z", "i", "p" >>
\* UrlLink.url: http://h/b.zip
OtherUrl ==
    << "h", "t", "t", "p", ":", "/", "/", "h", "/", "b", ".", "z", "i", "p" >>
\* The target of a download button: /addons/start/1
Start1 ==
    << "/", "a", "d", "d", "o", "n", "s", "/", "s", "t", "a", "r", "t", "/",
       "1" >>
\* The target of another one: /addons/start/2
Start2 ==
    << "/", "a", "d", "d", "o", "n", "s", "/", "s", "t", "a", "r", "t", "/",
       "2" >>
\* A mirror link: https://www.moddb.com/downloads/mirror/1
Mirror1 ==
    << "h", "t", "t", "p", "s", ":", "/", "/", "w", "w", "w", ".", "m", "o",
       "d", "d", "b", ".", "c", "o", "m", "/", "d", "o", "w", "n", "l", "o",
       "a", "d", "s", "/", "m", "i", "r", "r", "o", "r", "/", "1" >>
\* Another one: https://www.moddb.com/downloads/mirror/2
Mirror2 ==
    << "h", "t", "t", "p", "s", ":", "/", "/", "w", "w", "w", ".", "m", "o",
       "d", "d", "b", ".", "c", "o", "m", "/", "d", "o", "w", "n", "l", "o",
       "a", "d", "s", "/", "m", "i", "r", "r", "o", "r", "/", "2" >>
\* The text <a href="
AnchorOpen ==
    << "<", "a", " ", "h", "r", "e", "f", "=", "\"" >>
\* The text ">
AnchorClose ==
    << "\"", ">" >>
\* An attribute that is no href: <img src="/addons/start/9">
Image ==
    << "<", "i", "m", "g", " ", "s", "r", "c", "=", "\"", "/", "a", "d", "d",
       "o", "n", "s", "/", "s", "t", "a", "r", "t", "/", "9", "\"", ">" >>
\* Final URL paths of the latest-release request: no redirect,
PathLatest ==
    << "/", "o", "r", "g", "/", "n", "a", "m", "e", "/", "r", "e", "l", "e",
       "a", "s", "e", "s", "/", "l", "a", "t", "e", "s", "t" >>
\* the releases index,
PathNoReleases ==
    << "/", "o", "r", "g", "/", "n", "a", "m", "e", "/", "r", "e", "l", "e",
       "a", "s", "e", "s" >>
\* the releases index with a trailing slash,
PathIndexSlash ==
    << "/", "o", "r", "g", "/", "n", "a", "m", "e", "/", "r", "e", "l", "e",
       "a", "s", "e", "s", "/" >>
\* the release tagged v2.4.3,
PathTagV243 ==
    << "/", "o", "r", "g", "/", "n", "a", "m", "e", "/", "r", "e", "l", "e",
       "a", "s", "e", "s", "/", "t", "a", "g", "/", "v", "2", ".", "4", ".",
       "3" >>
\* the release tagged 1.0,
PathTag10 ==
    << "/", "o", "r", "g", "/", "n", "a", "m", "e", "/", "r", "e", "l", "e",
       "a", "s", "e", "s", "/", "t", "a", "g", "/", "1", ".", "0" >>
\* and a release whose tag is the text latest.
PathTagLatest ==
    << "/", "o", "r", "g", "/", "n", "a", "m", "e", "/", "r", "e", "l", "e",
       "a", "s", "e", "s", "/", "t", "a", "g", "/", "l", "a", "t", "e", "s",
       "t" >>

RECURSIVE Join(_, _)
\* The pieces of a text, with sep between each two.
Join(pieces, sep) ==
    IF Len(pieces) = 1 THEN pieces[1]
    ELSE pieces[1] \o sep \o Join(Tail(pieces), sep)

\* A filename with a $VERSION placeholder between each two of its pieces.
Template(pieces) == Join(pieces, DollarVersion)

RECURSIVE Concat(_)
Concat(texts) == IF texts = << >> THEN << >> ELSE Head(texts) \o Concat(Tail(texts))

\* The HTML of a page with an anchor for each of the link targets, after an
\* image.
Page(links) ==
    Image \o Concat([i \in 1..Len(links) |-> AnchorOpen \o links[i] \o AnchorClose])

\* A page that was served, with or without a success status.
Served(success, links) == Response(TRUE, success, << >>, TRUE, links, Page(links))
\* An answer whose body cannot be read.
NoBody == Response(TRUE, TRUE, << >>, FALSE, << >>, << >>)
\* The answer to a HEAD request, after the redirects.
Landed(success, path) == Response(TRUE, success, path, TRUE, << >>, << >>)

\* The keys of the model.
UrlKey == Url(ArchiveUrl)
ModdbKey == Moddb(AddonName, Updated)
LatestKey == Github(RepoName, Latest, Template(<<PiecePack, Piece7z>>))

\* Hosts that answer every request of the keys of the model: the latest
\* release of the repository is v2.4.3, the addon's page has a download
\* button and its target has a mirror link.
RemoteUp ==
    (GithubLatestUrl(LatestKey.link) :> Landed(TRUE, PathTagV243))
    @@ (URL_MODDB \o AddonName :> Served(TRUE, <<Start1>>))
    @@ (ModdbBase \o Start1 :> Served(TRUE, <<Mirror1>>))

\* ------------------------------------------------------------ DownloadCache

\* The longest sequence of get_or_download calls on one cache.
MaxCalls == 3

\* The entries of the modpack get_or_download is called for, by folder name
\* (Modpack::install passes &entry.download): m1 and m2 are two folders of the
\* same archive, their keys are equal and are two values.
Registry ==
    [m1 |-> Url(ArchiveUrl), m2 |-> Url(ArchiveUrl), m3 |-> ModdbKey, m4 |-> LatestKey]

\* What the hosts can be at the time of a call: all answering, or none.
CacheRemotes == { RemoteUp, << >> }

\* Result<PathBuf> of get_or_download.
OkPath(dir) == [state |-> "ok", path |-> dir, msg |-> ""]
ErrPath(msg) == [state |-> "err", path |-> 0, msg |-> msg]

\* HashMap::entry(key) is Entry::Occupied: a key equal to key is in the map.
Occupied(c, key) == key \in DOMAIN c

\* Entry::or_insert_with on a vacant entry.
Insert(c, key, dir) == [k \in DOMAIN c \cup {key} |-> IF k = key THEN dir ELSE c[k]]

\* DownloadCache::get_or_download on the map c, with the hosts as they are and
\* the outcome of download_and_unpack, should it be called: the map after the
\* call, whether download_link and download_and_unpack were called, and the
\* result.
\* Mutation: the entry is not looked at, every call downloads and stores.
GetOrDownloadAlways(c, key, rem, fetch) ==
    LET url == DownloadLink(key, rem)
    IN  IF url.state # "ok"
        THEN [cache |-> c, resolved |-> TRUE, fetched |-> FALSE, res |-> ErrPath(url.msg)]
        ELSE IF ~fetch.ok
        THEN [cache |-> c, resolved |-> TRUE, fetched |-> TRUE,
              res |-> ErrPath("download_and_unpack")]
        ELSE [cache |-> [k \in DOMAIN c \cup {key} |-> IF k = key THEN fetch.dir ELSE c[k]],
              resolved |-> TRUE, fetched |-> TRUE, res |-> OkPath(fetch.dir)]
GetOrDownload(c, key, rem, fetch) ==
    IF Occupied(c, key)
    THEN [cache |-> c, resolved |-> FALSE, fetched |-> FALSE, res |-> OkPath(c[key])]
    ELSE LET url == DownloadLink(key, rem)
         IN  IF url.state # "ok"
             THEN [cache |-> c, resolved |-> TRUE, fetched |-> FALSE,
                   res |-> ErrPath(url.msg)]
             ELSE IF ~fetch.ok
             THEN [cache |-> c, resolved |-> TRUE, fetched |-> TRUE,
                   res |-> ErrPath("download_and_unpack")]
             ELSE [cache |-> Insert(c, key, fetch.dir), resolved |-> TRUE,
                   fetched |-> TRUE, res |-> OkPath(fetch.dir)]

\* The calls of download_and_unpack so far.
Fetches == { i \in 1..Len(calls) : calls[i].fetched }

\* DownloadCache::new: an empty map; no call was made.
InitCache ==
    /\ cache = << >>
    /\ calls = << >>
    /\ TxnIdle /\ SrcIdle /\ NetIdle /\ DocIdle /\ ModIdle

\* A call of get_or_download for the key of a folder. download_and_unpack
\* returns an error or a temporary directory no earlier call returned.
GetOrDownloadCall ==
    /\ Len(calls) < MaxCalls
    /\ \E name \in DOMAIN Registry, rem \in CacheRemotes, ok \in BOOLEAN :
          LET key == Registry[name]
              out == GetOrDownload(cache, key, rem,
                                   [ok |-> ok, dir |-> Cardinality(Fetches) + 1])
          IN  /\ cache' = out.cache
              /\ calls' = Append(calls, [name |-> name, key |-> key,
                                         resolved |-> out.resolved,
                                         fetched |-> out.fetched, res |-> out.res])
    /\ UNCHANGED << txnVars, srcVars, netVars, docVars, modVars >>

NextCache == GetOrDownloadCall

SpecCache == InitCache /\ [][NextCache]_vars

\* C14 (fetch at most once): on one cache, whatever calls of get_or_download
\* were made and whether they failed or not, download_and_unpack was called at
\* most once for each key, equal keys counting as one.
C14_FetchAtMostOnce ==
    \A name \in DOMAIN Registry :
        Cardinality({ i \in Fetches : calls[i].key = Registry[name] }) <= 1

\* C15 (cache hit): once a call for a key has returned a directory, the map
\* holds that directory for the key ever after, and every later call with an
\* equal key returns the same directory and calls neither download_link nor
\* download_and_unpack.
C15_CacheHit ==
    \A m \in 1..Len(calls) :
        calls[m].res.state = "ok" =>
            /\ Occupied(cache, calls[m].key)
            /\ cache[calls[m].key] = calls[m].res.path
            /\ \A n \in (m + 1)..Len(calls) :
                  calls[n].key = calls[m].key =>
                      /\ calls[n].res = calls[m].res
                      /\ ~calls[n].resolved /\ ~calls[n].fetched

\* C15 witness: a directory was downloaded for folder m1, another one for a
\* different key, and a call for folder m2, whose key equals that of m1,
\* returned the first directory without a download.
C15_Witness ==
    /\ Len(calls) = 3
    /\ calls[1].name = "m1" /\ calls[1].fetched /\ calls[1].res.state = "ok"
    /\ calls[2].name = "m3" /\ calls[2].fetched /\ calls[2].res.state = "ok"
    /\ calls[3].name = "m2" /\ calls[3].res = calls[1].res
    /\ calls[3].res.path # calls[2].res.path

\* ------------------------------------------------- configuration documents

\* The most mods of a configuration document.
MaxMods == 2

\* A JSON text, as serde_json reads and writes it: strings, numbers, null,
\* and objects with their members in the order of the text.
JStr(s) == [t |-> "str", s |-> s]
JNum(n) == [t |-> "num", n |-> n]
JNull == [t |-> "null"]
JObj(m) == [t |-> "obj", m |-> m]
Member(name, value) == [name |-> name, value |-> value]

\* Result of a deserializer.
OkV(v) == [state |-> "ok", v |-> v]
ErrV(msg) == [state |-> "err", msg |-> msg]

\* Option<String>.
None == [some |-> FALSE, v |-> << >>]
Some(v) == [some |-> TRUE, v |-> v]

\* FolderEntry and ModpackConfig; the IndexMap of mods is the sequence of its
\* entries in insertion order.
FolderEntry(download, addon_folder) ==
    [download |-> download, addon_folder |-> addon_folder]
ModpackConfig(metadata, mods) == [metadata |-> metadata, mods |-> mods]

\* rename_all = "snake_case": the name of a variant in a document.
TagModdb ==
    << "m", "o", "d", "d", "b" >>
TagGithub ==
    << "g", "i", "t", "h", "u", "b" >>
TagUrl ==
    << "u", "r", "l" >>
VariantTag(variant) ==
    CASE variant = "Moddb" -> TagModdb
      [] variant = "Github" -> TagGithub
      [] variant = "Url" -> TagUrl

\* ---- Serialize

\* derive(Serialize) with serde(tag = "type"): the tag, then the fields of the
\* link struct in declaration order.
SerializeKey(k) ==
    JObj(<<Member("type", JStr(VariantTag(k.variant)))>> \o
         CASE k.variant = "Moddb" ->
                <<Member("addon_link", JStr(k.link.addon_link)),
                  Member("updated", JStr(k.link.updated))>>
           [] k.variant = "Github" ->
                <<Member("repo", JStr(k.link.repo)), Member("tag", JStr(k.link.tag)),
                  Member("filename", JStr(k.link.filename))>>
           [] k.variant = "Url" -> <<Member("url", JStr(k.link.url))>>)

\* derive(Serialize) with skip_serializing_none: addon_folder is written only
\* when it is Some.
SerializeEntry(e) ==
    JObj(<<Member("download", SerializeKey(e.download))>> \o
         IF e.addon_folder.some
         THEN <<Member("addon_folder", JStr(e.addon_folder.v))>> ELSE << >>)

\* serde_json::to_string_pretty(&config): metadata, then the mods in the
\* order of the IndexMap.
SerializeConfig(c) ==
    JObj(<<Member("metadata",
                  JObj(<<Member("config_version", JNum(c.metadata.config_version)),
                         Member("name", JStr(c.metadata.name))>>)),
           Member("mods",
                  JObj([i \in 1..Len(c.mods) |->
                          Member(c.mods[i].name, SerializeEntry(c.mods[i].entry))]))>>)

\* ---- Deserialize

RECURSIVE Values(_, _)
\* The values of those of the members that have the name, in their order.
Values(members, name) ==
    IF members = << >> THEN << >>
    ELSE (IF Head(members).name = name THEN <<Head(members).value>> ELSE << >>)
         \o Values(Tail(members), name)

\* A field of a derived struct: a member met twice is an error, members of
\* other names are skipped.
Field(j, name) ==
    IF j.t # "obj" THEN ErrV("invalid type")
    ELSE LET vs == Values(j.m, name)
         IN  IF Len(vs) > 1 THEN ErrV("duplicate field")
             ELSE IF Len(vs) = 0 THEN ErrV("missing field")
             ELSE OkV(vs[1])

\* A String field.
StringField(j, name) ==
    LET f == Field(j, name)
    IN  IF f.state # "ok" THEN f
        ELSE IF f.v.t # "str" THEN ErrV("invalid type")
        ELSE OkV(f.v.s)

\* An Option<String> field: None when the member is missing or null.
OptionField(j, name) ==
    LET f == Field(j, name)
    IN  IF f.state # "ok"
        THEN IF f.msg = "missing field" THEN OkV(None) ELSE f
        ELSE IF f.v.t = "null" THEN OkV(None)
        ELSE IF f.v.t # "str" THEN ErrV("invalid type")
        ELSE OkV(Some(f.v.s))

\* A u8 field.
U8Field(j, name) ==
    LET f == Field(j, name)
    IN  IF f.state # "ok" THEN f
        ELSE IF f.v.t # "num" \/ f.v.n \notin 0..255 THEN ErrV("invalid type")
        ELSE OkV(f.v.n)

\* derive(Deserialize) of AddonKey with serde(tag = "type", rename_all =
\* "snake_case"): the variant named by the type member, with the fields of
\* its link struct.
ParseKey(j) ==
    LET tag == StringField(j, "type")
    IN  IF tag.state # "ok" THEN tag
        ELSE IF tag.v = TagModdb
        THEN LET a == StringField(j, "addon_link")
                 u == StringField(j, "updated")
             IN  IF a.state # "ok" THEN a ELSE IF u.state # "ok" THEN u
                 ELSE OkV(Moddb(a.v, u.v))
        ELSE IF tag.v = TagGithub
        THEN LET r == StringField(j, "repo")
                 g == StringField(j, "tag")
                 f == StringField(j, "filename")
             IN  IF r.state # "ok" THEN r ELSE IF g.state # "ok" THEN g
                 ELSE IF f.state # "ok" THEN f
                 ELSE OkV(Github(r.v, g.v, f.v))
        ELSE IF tag.v = TagUrl
        THEN LET u == StringField(j, "url")
             IN  IF u.state # "ok" THEN u ELSE OkV(Url(u.v))
        ELSE ErrV("unknown variant")

\* derive(Deserialize) of FolderEntry.
ParseEntry(j) ==
    LET d == Field(j, "download")
        k == ParseKey(d.v)
        f == OptionField(j, "addon_folder")
    IN  IF d.state # "ok" THEN d
        ELSE IF k.state # "ok" THEN k
        ELSE IF f.state # "ok" THEN f
        ELSE OkV(FolderEntry(k.v, f.v))

\* The folder names, in the order of String.
FolderNames == <<"m1", "m2", "m3">>
Rank(name) == CHOOSE i \in 1..Len(FolderNames) : FolderNames[i] = name

\* IndexMap::insert: a new key goes to the end, a key of the map keeps its
\* place and takes the new value.
\* Mutation: the entries are kept in the order of their keys (BTreeMap).
IndexInsertSorted(mods, name, entry) ==
    LET others == SelectSeq(mods, LAMBDA x : x.name # name)
        before == SelectSeq(others, LAMBDA x : Rank(x.name) < Rank(name))
        after == SelectSeq(others, LAMBDA x : Rank(x.name) > Rank(name))
    IN  before \o <<[name |-> name, entry |-> entry]>> \o after
IndexInsert(mods, name, entry) ==
    IF \E i \in 1..Len(mods) : mods[i].name = name
    THEN [i \in 1..Len(mods) |->
            IF mods[i].name = name THEN [name |-> name, entry |-> entry] ELSE mods[i]]
    ELSE Append(mods, [name |-> name, entry |-> entry])

RECURSIVE ParseMembers(_, _)
\* Deserialize of IndexMap<String, FolderEntry>: the members of the object are
\* inserted one after the other.
ParseMembers(members, mods) ==
    IF members = << >> THEN OkV(mods)
    ELSE LET e == ParseEntry(Head(members).value)
         IN  IF e.state # "ok" THEN e
             ELSE ParseMembers(Tail(members), IndexInsert(mods, Head(members).name, e.v))

ParseMods(j) == IF j.t # "obj" THEN ErrV("invalid type") ELSE ParseMembers(j.m, << >>)

\* serde_json::from_str::<ModpackConfig>.
ParseConfig(j) ==
    LET md == Field(j, "metadata")
        v == U8Field(md.v, "config_version")
        n == StringField(md.v, "name")
        ms == Field(j, "mods")
        mods == ParseMods(ms.v)
    IN  IF md.state # "ok" THEN md
        ELSE IF v.state # "ok" THEN v
        ELSE IF n.state # "ok" THEN n
        ELSE IF ms.state # "ok" THEN ms
        ELSE IF mods.state # "ok" THEN mods
        ELSE OkV(ModpackConfig([config_version |-> v.v, name |-> n.v], mods.v))

\* ---- The documents of the model

\* Metadata.name, FolderEntry.addon_folder and a type no variant has.
PackName ==
    << "p", "a", "c", "k" >>
SubFolder ==
    << "s", "u", "b" >>
TagGit ==
    << "g", "i", "t" >>

\* The download objects of the documents: a URL, a moddb link, a github
\* link, and an object of a type no variant has.
UrlDoc == JObj(<<Member("type", JStr(TagUrl)), Member("url", JStr(ArchiveUrl))>>)
ModdbDoc ==
    JObj(<<Member("type", JStr(TagModdb)), Member("addon_link", JStr(AddonName)),
           Member("updated", JStr(Updated))>>)
GithubDoc ==
    JObj(<<Member("type", JStr(TagGithub)), Member("repo", JStr(RepoName)),
           Member("tag", JStr(Latest)), Member("filename", JStr(Piece7z))>>)
GitDoc == JObj(<<Member("type", JStr(TagGit)), Member("url", JStr(ArchiveUrl))>>)

\* The entries of the documents: each download object alone, and one with an
\* addon_folder, with a null addon_folder, and with a member FolderEntry does
\* not have.
EntryDocs ==
    { JObj(<<Member("download", d)>>) : d \in {UrlDoc, ModdbDoc, GithubDoc, GitDoc} }
    \cup { JObj(<<Member("download", UrlDoc), Member("addon_folder", JStr(SubFolder))>>),
           JObj(<<Member("download", UrlDoc), Member("addon_folder", JNull)>>),
           JObj(<<Member("download", ModdbDoc), Member("renamed_from", JStr(SubFolder))>>) }

\* The objects of up to n mods of different names, in any order.
ModsDocs(n) ==
    UNION { { JObj([i \in 1..k |-> Member(names[i], entries[i])]) :
                names \in { s \in [1..k -> { FolderNames[i] : i \in 1..Len(FolderNames) }] :
                              \A i, j \in 1..k : i # j => s[i] # s[j] },
                entries \in [1..k -> EntryDocs] } :
            k \in 0..n }

\* The documents of up to n mods.
Docs(n) ==
    { JObj(<<Member("metadata", JObj(<<Member("config_version", JNum(1)),
                                       Member("name", JStr(PackName))>>)),
             Member("mods", mods)>>) : mods \in ModsDocs(n) }

\* A configuration document is read.
InitSerde ==
    /\ doc \in Docs(MaxMods)
    /\ config = NoResult
    /\ redoc = NoResult
    /\ TxnIdle /\ SrcIdle /\ NetIdle /\ CacheIdle /\ ModIdle

\* serde_json::from_str(doc).
Parse ==
    /\ config = NoResult
    /\ config' = ParseConfig(doc)
    /\ UNCHANGED << doc, redoc >>
    /\ UNCHANGED << txnVars, srcVars, netVars, cacheVars, modVars >>

\* serde_json::to_string_pretty(&config).
Serialize ==
    /\ config.state = "ok"
    /\ redoc = NoResult
    /\ redoc' = SerializeConfig(config.v)
    /\ UNCHANGED << doc, config >>
    /\ UNCHANGED << txnVars, srcVars, netVars, cacheVars, modVars >>

NextSerde == Parse \/ Serialize

SpecSerde == InitSerde /\ [][NextSerde]_vars

\* The mods object of a document and the names of its members, in order.
ModsOf(d) == d.m[2].value
ModNamesOf(d) == [i \in 1..Len(ModsOf(d).m) |-> ModsOf(d).m[i].name]
\* The download object of the i-th mod of the document.
DownloadOf(d, i) == ModsOf(d).m[i].value.m[1].value

\* The keys of the parsed configuration are equal exactly when their variants
\* and fields are those of the same download object, equal keys and only
\* they meet in one cache entry, and each key is read back from what is
\* written for it.
KeysStable ==
    \A i, j \in 1..Len(config.v.mods) :
        LET a == config.v.mods[i].entry.download
            b == config.v.mods[j].entry.download
        IN  /\ (a = b) <=> (DownloadOf(doc, i) = DownloadOf(doc, j))
            /\ (a = b) <=> (a.variant = b.variant /\ a.link = b.link)
            /\ Occupied(Insert(<< >>, a, 1), b) <=> (a = b)
            /\ ParseKey(SerializeKey(a)) = OkV(a)

\* The document has the members the serializer writes and no other: each
\* entry has a download and, after it, possibly an addon_folder that is a
\* string.
Layout(d) ==
    \A i \in 1..Len(ModsOf(d).m) :
        LET e == ModsOf(d).m[i].value
        IN  \/ Len(e.m) = 1
            \/ Len(e.m) = 2 /\ e.m[2].name = "addon_folder" /\ e.m[2].value.t = "str"

\* C16 as stated (AddonKey identity and round trip): the keys of a parsed
\* document are equal exactly when variant and fields are, each key is read
\* back from its serialization, and serializing the parsed configuration gives
\* the document back, mods in their order.
C16_DocumentReproduced ==
    /\ config.state = "ok" => KeysStable
    /\ redoc # NoResult => redoc = doc

\* C16, amended: the same for the keys; serializing the parsed configuration
\* gives a document with the mods of the original in their order, and gives
\* the original back when it has the members the serializer writes and no
\* other.
C16_KeyIdentity ==
    /\ config.state = "ok" => KeysStable
    /\ redoc # NoResult =>
          /\ ModNamesOf(redoc) = ModNamesOf(doc)
          /\ Layout(doc) => redoc = doc

\* C16 witness: a document with the mods m2 and m1, in this order, of the same
\* download, one of them with an addon_folder, was parsed and written again,
\* and the result is the document.
C16_Witness ==
    /\ redoc = doc
    /\ ModNamesOf(doc) = <<"m2", "m1">>
    /\ DownloadOf(doc, 1) = DownloadOf(doc, 2)
    /\ Len(ModsOf(doc).m[1].value.m) = 2
    /\ config.v.mods[1].entry.download = config.v.mods[2].entry.download

\* ------------------------------------------------- AddonKey::download_link

\* The most pieces of a filename, and the most links of a page.
MaxPieces == 2
MaxLinks == 2

\* The sequences of 1 to n of the items, and of 0 to n.
SeqsOver(S, n) == UNION { [1..k -> S] : k \in 1..n }
SeqsUpTo(S, n) == {<< >>} \cup SeqsOver(S, n)

\* The pieces of the filenames of the model.
PieceSeqs(n) == SeqsOver({ << >>, PiecePack, Piece7z, PieceDollarV }, n)

\* The keys download_link is called on: the URLs, the moddb link with either
\* value of updated, and github links of every tag with every filename of up
\* to n pieces.
Links(n) ==
    { Url(ArchiveUrl), Url(OtherUrl), ModdbKey, Moddb(AddonName, OtherUpdated) }
    \cup { Github(RepoName, tag, Template(pieces)) :
             tag \in { Latest, TagV243, Tag10, TagVV1, TagV }, pieces \in PieceSeqs(n) }

\* What the latest-release request of the repository can meet: no answer
\* (<< >>), a status that is no success, and a success on each final path.
GithubHosts ==
    { << >> }
    \cup { GithubLatestUrl(LatestKey.link) :> Landed(FALSE, path) :
             path \in { PathLatest, PathNoReleases } }
    \cup { GithubLatestUrl(LatestKey.link) :> Landed(TRUE, path) :
             path \in { PathTagV243, PathTag10, PathNoReleases, PathTagLatest,
                        PathLatest, PathIndexSlash } }

\* What a page request can meet: no answer, an answer without a readable
\* body, and a page with up to n of the links.
PageAnswers(S, n) ==
    { Unreachable, NoBody } \cup { Served(TRUE, links) : links \in SeqsUpTo(S, n) }

\* What the requests of the moddb link can meet: the page of the addon, also
\* served with an error status, the page of the first download button, and
\* the page of the other one.
ModdbHosts(n) ==
    { (URL_MODDB \o AddonName :> p1) @@ (ModdbBase \o Start1 :> p2)
        @@ (ModdbBase \o Start2 :> p3) :
        p1 \in PageAnswers({ Mirror1, Start1, Start2 }, n)
               \cup { Served(FALSE, links) : links \in SeqsUpTo({ Mirror1, Start1, Start2 }, n) },
        p2 \in PageAnswers({ Start1, Mirror1, Mirror2 }, n),
        p3 \in { Unreachable, Served(TRUE, <<Mirror2>>) } }

\* The hosts at the time download_link is called on the key.
Remotes(key, n) ==
    IF key.variant = "Moddb" THEN ModdbHosts(n)
    ELSE IF key.variant = "Github" /\ key.link.tag = Latest THEN GithubHosts
    ELSE { << >>, RemoteUp }

\* A key and the hosts, before download_link is called.
InitResolve ==
    /\ link \in Links(MaxPieces)
    /\ remote \in Remotes(link, MaxLinks)
    /\ answer = NoResult
    /\ TxnIdle /\ SrcIdle /\ CacheIdle /\ DocIdle /\ ModIdle

\* key.download_link().await
Resolve ==
    /\ answer = NoResult
    /\ answer' = DownloadLink(link, remote)
    /\ UNCHANGED << link, remote >>
    /\ UNCHANGED << txnVars, srcVars, cacheVars, docVars, modVars >>

NextResolve == Resolve

SpecResolve == InitResolve /\ [][NextResolve]_vars

RECURSIVE Segments(_)
\* The parts of a text between its slashes.
Segments(text) ==
    LET at == { i \in 1..Len(text) : text[i] = "/" }
    IN  IF at = {} THEN <<text>>
        ELSE LET i == CHOOSE i \in at : \A j \in at : i <= j
             IN  <<SubSeq(text, 1, i - 1)>> \o Segments(SubSeq(text, i + 1, Len(text)))

\* The tag segment of a release URL of the repository of the model:
\* https://github.com/org/name/releases/download/<tag>/<file>.
TagSegment(url) == Segments(url)[8]

\* A tag without its first character when that is a v.
WithoutLeadingV(tag) ==
    IF Len(tag) > 0 /\ tag[1] = "v" THEN SubSeq(tag, 2, Len(tag)) ELSE tag

Tagged == link.variant = "Github" /\ link.link.tag # Latest
LatestTag == link.variant = "Github" /\ link.link.tag = Latest

\* C17 (tagged release URL): for a github link whose tag is not latest,
\* download_link sends no request and returns
\* https://github.com/<repo>/releases/download/<tag>/<f>, with the tag as it
\* is and <f> the filename with each $VERSION replaced by the tag without one
\* leading v.
C17_TaggedReleaseUrl ==
    (Tagged /\ answer # NoResult) =>
        /\ answer.state = "ok"
        /\ answer.requests = << >>
        /\ \A pieces \in PieceSeqs(MaxPieces) :
              link.link.filename = Template(pieces) =>
                  answer.url = GithubBase \o link.link.repo \o ReleasesDownload
                                 \o link.link.tag \o Slash
                                 \o Join(pieces, WithoutLeadingV(link.link.tag))

\* C17 witness: tag v2.4.3 with Pack-$VERSION.7z of org/name was resolved to
\* https://github.com/org/name/releases/download/v2.4.3/Pack-2.4.3.7z.
C17_Witness ==
    /\ link = Github(RepoName, TagV243, Template(<<PiecePack, Piece7z>>))
    /\ answer.state = "ok"
    /\ answer.url =
       << "h", "t", "t", "p", "s", ":", "/", "/", "g", "i", "t", "h", "u", "b",
          ".", "c", "o", "m", "/", "o", "r", "g", "/", "n", "a", "m", "e", "/",
          "r", "e", "l", "e", "a", "s", "e", "s", "/", "d", "o", "w", "n", "l",
          "o", "a", "d", "/", "v", "2", ".", "4", ".", "3", "/", "P", "a", "c",
          "k", "-", "2", ".", "4", ".", "3", ".", "7", "z" >>

\* C18 (latest is never the tag segment): for a github link with tag latest,
\* a URL that download_link returns never has latest as its tag segment,
\* whatever the latest-release request met.
C18_NoLatestSegment ==
    (LatestTag /\ answer.state = "ok") => TagSegment(answer.url) # Latest

\* C19 (latest-tag failure modes): for a github link with tag latest, one HEAD
\* request is sent to the latest-release URL; when it gets no answer or the
\* status is no success, download_link fails with the request's error or "No
\* such repo" and returns no URL; when the status is a success and the last
\* segment of the final path is releases, it fails with "No releases in repo"
\* and returns no URL; otherwise it returns a URL whose tag segment is the
\* last segment of the final path.
C19_LatestFailureModes ==
    (LatestTag /\ answer # NoResult) =>
        LET url == GithubBase \o link.link.repo \o ReleasesLatest
            resp == Respond(remote, url)
            last == Segments(resp.path)[Len(Segments(resp.path))]
        IN  /\ answer.requests = << Request("HEAD", url) >>
            /\ ~resp.sent => answer = Failed("reqwest::Error", answer.requests)
            /\ (resp.sent /\ ~resp.success) =>
                  answer = Failed("No such repo", answer.requests)
            /\ (resp.sent /\ resp.success /\ last = Releases) =>
                  answer = Failed("No releases in repo", answer.requests)
            /\ (resp.sent /\ resp.success /\ last # Releases) =>
                  /\ answer.state = "ok"
                  /\ TagSegment(answer.url) = last
            /\ answer.state = "err" => answer.url = << >>

\* C19 witness: the latest-release request ended on the releases index with a
\* success status, and download_link failed with "No releases in repo".
C19_Witness ==
    /\ LatestTag
    /\ Respond(remote, GithubLatestUrl(link.link)) = Landed(TRUE, PathNoReleases)
    /\ answer = Failed("No releases in repo", << Request("HEAD", GithubLatestUrl(link.link)) >>)

\* The first of the links that is one of the targets, << >> when there is
\* none.
FirstIn(links, targets) ==
    LET at == { i \in 1..Len(links) : links[i] \in targets }
    IN  IF at = {} THEN << >> ELSE links[CHOOSE i \in at : \A j \in at : i <= j]

\* C20 (portal two-stage scrape): for a moddb link, download_link requests the
\* page of the addon; without a link to a download button on it, it fails with
\* "Couldn't find moddb download button" and sends no second request;
\* otherwise it requests the page the first such link addresses, once, and
\* returns the first mirror link of that page, or fails with "Couldn't find
\* moddb mirror link" when the page has none. No request is sent twice.
C20_TwoStageScrape ==
    (link.variant = "Moddb" /\ answer # NoResult) =>
        LET url1 == URL_MODDB \o link.link.addon_link
            p1 == Respond(remote, url1)
            start == FirstIn(p1.links, { Start1, Start2 })
            url2 == ModdbBase \o start
            p2 == Respond(remote, url2)
            mirror == FirstIn(p2.links, { Mirror1, Mirror2 })
            req1 == << Request("GET", url1) >>
            req2 == << Request("GET", url1), Request("GET", url2) >>
        IN  /\ (p1.sent /\ p1.body /\ start = << >>) =>
                  answer = Failed("Couldn't find moddb download button", req1)
            /\ (p1.sent /\ p1.body /\ start # << >>) =>
                  /\ answer.requests = req2
                  /\ (p2.sent /\ p2.body /\ mirror = << >>) =>
                        answer = Failed("Couldn't find moddb mirror link", req2)
                  /\ (p2.sent /\ p2.body /\ mirror # << >>) =>
                        answer = Resolved(mirror, req2)
                  /\ ~(p2.sent /\ p2.body) => answer.state = "err"
            /\ ~(p1.sent /\ p1.body) => (answer.state = "err" /\ answer.requests = req1)

\* C20 witness: the page of the addon had two download buttons, the page of
\* the first had two mirror links, and download_link returned the first
\* mirror link of that page.
C20_Witness ==
    /\ link = ModdbKey
    /\ Respond(remote, URL_MODDB \o AddonName).links = <<Start1, Start2>>
    /\ Respond(remote, ModdbBase \o Start1).links = <<Mirror2, Mirror1>>
    /\ answer.state = "ok" /\ answer.url = Mirror2
    /\ Len(answer.requests) = 2

\* C21 (updated is not used in resolution): for a moddb link, download_link
\* on a link with the same addon_link and another value of updated, against
\* the same hosts, sends the same requests and returns the same URL or the
\* same error.
C21_UpdatedIgnored ==
    (link.variant = "Moddb" /\ answer # NoResult) =>
        \A u \in { Updated, OtherUpdated } :
            DownloadLink(Moddb(link.link.addon_link, u), remote) = answer

\* C21 witness: the link with the other value of updated was resolved to a
\* mirror link after two requests.
C21_Witness ==
    /\ link = Moddb(AddonName, OtherUpdated)
    /\ answer.state = "ok" /\ answer.url \in { Mirror1, Mirror2 }
    /\ Len(answer.requests) = 2

\* ---------------------------------------------------------------------------
\* The addon folder of an unpacked archive (Addons::find_addons and
\* Addons::install of addonlist.rs).  A path is the sequence of its components
\* below the download directory; << >> is the download directory itself.
\* ---------------------------------------------------------------------------

\* the number of files and folders of an unpacked archive
MaxEntries == 5
\* the length of a list of paths given to find_addons
MaxListed == 2

\* the name find_addons looks for
GAMEDATA ==
    << "g", "a", "m", "e", "d", "a", "t", "a" >>
\* names of folders and files of archives
Sub ==
    << "s", "u", "b" >>
Pack ==
    << "p", "k" >>
Abc ==
    << "a", "b", "c" >>
\* the name of the download directory, a temporary directory
TmpName ==
    << ".", "t", "m", "p" >>
\* the text of the error of install
CantFindAddonFolder ==
    << "C", "a", "n", "'", "t", " ", "f", "i", "n", "d", " ", "a", "d", "d",
       "o", "n", " ", "f", "o", "l", "d", "e", "r" >>

\* Path::file_name; the download directory has the name of a temporary
\* directory.  The parent of a path is Parent, as for the transactions.
FileName(p) == IF p = << >> THEN TmpName ELSE p[Len(p)]

\* The paths an archive of the model can hold.
ArchivePaths ==
    { <<GAMEDATA>>, <<GAMEDATA, Abc>>, <<GAMEDATA, GAMEDATA>>,
      <<Sub>>, <<Sub, GAMEDATA>>,
      <<Pack>>, <<Pack, Sub>>, <<Pack, Sub, GAMEDATA>> }

\* The unpacked archives of at most n entries: every entry is a file or a
\* folder, and what has an entry below it is a folder.
Trees(n) ==
    LET closed == { S \in SUBSET ArchivePaths :
                      /\ Cardinality(S) <= n
                      /\ \A p \in S : Len(p) > 1 => Parent(p) \in S }
    IN  UNION { { t \in [S -> { "dir", "file" }] :
                    \A p \in S : Len(p) > 1 => t[Parent(p)] = "dir" }
                : S \in closed }

\* The entries directly in a folder.
Children(tree, p) ==
    { c \in DOMAIN tree : Len(c) = Len(p) + 1 /\ Parent(c) = p }

RECURSIVE WalkDir(_, _), WalkEach(_, _)
\* walkdir::WalkDir::new(p): the path itself, then what is below it, folder
\* by folder; files are entries of the walk as folders are.
WalkDir(tree, p) == <<p>> \o WalkEach(tree, Children(tree, p))
WalkEach(tree, ps) ==
    IF ps = {} THEN << >>
    ELSE LET c == CHOOSE c \in ps : TRUE
         IN  WalkDir(tree, c) \o WalkEach(tree, ps \ { c })

\* Addons::find_addons: the parents of the paths named gamedata, as a set.
FindAddons(folders) ==
    { Parent(folders[i]) :
        i \in { i \in 1..Len(folders) : FileName(folders[i]) = GAMEDATA } }

\* Variants of Addons::install, for comparison: one that takes the only
\* candidate when the entry names no folder, and one that fails when the
\* folder the entry names is not found.
InstallOnlyCandidate(addon_folder, tree) ==
    LET addon_folders == FindAddons(WalkDir(tree, << >>))
        found == IF addon_folder.some
                 THEN { p \in addon_folders : FileName(p) = addon_folder.v }
                 ELSE {}
    IN  IF found # {} THEN { OkV(p) : p \in found }
        ELSE IF << >> \in addon_folders THEN { OkV(<< >>) }
        ELSE IF Cardinality(addon_folders) = 1
             THEN { OkV(p) : p \in addon_folders }
        ELSE { ErrV(CantFindAddonFolder) }
InstallNamedOrFail(addon_folder, tree) ==
    LET addon_folders == FindAddons(WalkDir(tree, << >>))
        found == IF addon_folder.some
                 THEN { p \in addon_folders : FileName(p) = addon_folder.v }
                 ELSE {}
    IN  IF found # {} THEN { OkV(p) : p \in found }
        ELSE IF ~addon_folder.some /\ << >> \in addon_folders
             THEN { OkV(<< >>) }
        ELSE { ErrV(CantFindAddonFolder) }

\* Addons::install: the results it can give for an entry with this
\* addon_folder and this unpacked archive.  The candidates are a HashSet, so
\* find gives any of the candidates with the name of addon_folder.
Install(addon_folder, tree) ==
    LET addon_folders == FindAddons(WalkDir(tree, << >>))
        found == IF addon_folder.some
                 THEN { p \in addon_folders : FileName(p) = addon_folder.v }
                 ELSE {}
    IN  IF found # {} THEN { OkV(p) : p \in found }
        ELSE IF << >> \in addon_folders THEN { OkV(<< >>) }
        ELSE { ErrV(CantFindAddonFolder) }

\* An unpacked archive and the addon_folder of the entry.
InitLocate ==
    /\ unpacked \in Trees(MaxEntries)
    /\ override \in { None, Some(Sub), Some(Abc) }
    /\ listed = << >>
    /\ candidates = NoResult
    /\ located = NoResult
    /\ AppIdle
    /\ TxnIdle /\ SrcIdle /\ NetIdle /\ CacheIdle /\ DocIdle
    /\ OrdIdle /\ MissIdle

\* Addons::find_addons(paths) on a list of paths of the archive.
FindAddonsCall ==
    /\ candidates = NoResult
    /\ \E paths \in SeqsUpTo(DOMAIN unpacked \cup { << >> }, MaxListed) :
          /\ listed' = paths
          /\ candidates' = OkV(FindAddons(paths))
    /\ UNCHANGED << unpacked, override, located >>
    /\ UNCHANGED appVars
    /\ UNCHANGED << txnVars, srcVars, netVars, cacheVars, docVars >>
    /\ UNCHANGED << ordVars, missVars >>

\* Addons::install(entry, unpacker, dl_dir)
InstallCall ==
    /\ located = NoResult
    /\ listed' = WalkDir(unpacked, << >>)
    /\ candidates' = OkV(FindAddons(listed'))
    /\ located' \in Install(override, unpacked)
    /\ UNCHANGED << unpacked, override >>
    /\ UNCHANGED appVars
    /\ UNCHANGED << txnVars, srcVars, netVars, cacheVars, docVars >>
    /\ UNCHANGED << ordVars, missVars >>

NextLocate == FindAddonsCall \/ InstallCall

SpecLocate == InitLocate /\ [][NextLocate]_vars

\* C22 (payload-folder candidates): find_addons on a list of paths of an
\* unpacked archive gives exactly the folders that directly hold a listed
\* folder named gamedata: the folder itself and not its gamedata folder, once
\* however often it is listed, and nothing for the paths below a gamedata
\* folder that are not named gamedata themselves.
C22_CandidatesHoldGamedataFolder ==
    candidates.state = "ok" =>
        candidates.v =
            { d \in DOMAIN unpacked \cup { << >> } :
                \E i \in 1..Len(listed) :
                    /\ listed[i] = d \o <<GAMEDATA>>
                    /\ unpacked[listed[i]] = "dir" }

\* The archive of the example: a folder sub with a folder gamedata in it and
\* nothing else, and the same archive without the gamedata folder.
SubOnly ==
    [p \in { <<Sub>>, <<Sub, GAMEDATA>> } |-> "dir"]

Named == { p \in candidates.v : FileName(p) = override.v }

\* C24 as stated (selection rule): with addon_folder set, install gives a
\* candidate with that name and fails with "Can't find addon folder" when no
\* candidate has it; with addon_folder not set, it gives the download
\* directory if that is a candidate and fails otherwise; what it gives is
\* always a candidate.
C24_SelectionAsStated ==
    located.state # "none" =>
        /\ (override.some /\ Named # {}) =>
               (located.state = "ok" /\ located.v \in Named)
        /\ (override.some /\ Named = {}) =>
               located = ErrV(CantFindAddonFolder)
        /\ (~override.some /\ << >> \in candidates.v) => located = OkV(<< >>)
        /\ (~override.some /\ << >> \notin candidates.v) =>
               located = ErrV(CantFindAddonFolder)
        /\ located.state = "ok" => located.v \in candidates.v

\* C24 (selection rule): with addon_folder set and a candidate of that name,
\* install gives a candidate with that name; with addon_folder not set, or
\* set to a name no candidate has, it gives the download directory if that is
\* a candidate and fails with "Can't find addon folder" otherwise; what it
\* gives is always a candidate.
C24_Selection ==
    located.state # "none" =>
        /\ (override.some /\ Named # {}) =>
               (located.state = "ok" /\ located.v \in Named)
        /\ (~(override.some /\ Named # {}) /\ << >> \in candidates.v) =>
               located = OkV(<< >>)
        /\ (~(override.some /\ Named # {}) /\ << >> \notin candidates.v) =>
               located = ErrV(CantFindAddonFolder)
        /\ located.state = "ok" => located.v \in candidates.v

\* C24 witness: the entry names a folder no candidate has, and install gave
\* the download directory, which is a candidate beside another one.
C24_Witness ==
    /\ override.some
    /\ located.state = "ok"
    /\ Named = {}
    /\ Cardinality(candidates.v) = 2
    /\ located = OkV(<< >>)

\* ---------------------------------------------------------------------------
\* The load order and the registry of a Modpack (LoadOrder, Addons and
\* From<ModpackConfig> of addonlist.rs).  The registry is the set of its
\* names; the entries do not enter the operations modelled here.
\* ---------------------------------------------------------------------------

\* the number of addon names
MaxNames == 3
\* the length of a load order made with push
MaxOrder == 3

LOADORDER_HEADER ==
    << "#", " ", "T", "h", "i", "s", " ", "f", "i", "l", "e", " ", "w", "a",
       "s", " ", "a", "u", "t", "o", "m", "a", "t", "i", "c", "a", "l", "l",
       "y", " ", "g", "e", "n", "e", "r", "a", "t", "e", "d", " ", "b", "y",
       " ", "A", "n", "o", "m", "a", "l", "y", " ", "M", "o", "d", "d", "i",
       "n", "g", " ", "T", "o", "o", "l", ".", " ", "S", "o", "r", "r", "y",
       " ", "i", "f", " ", "i", "t", " ", "b", "r", "o", "k", "e", " ", "l",
       "o", "l", ".", "\n" >>
\* the text of the error of change_position
NoSuchElement ==
    << "N", "o", " ", "s", "u", "c", "h", " ", "e", "l", "e", "m", "e", "n",
       "t" >>

\* The names of the addons of the model, folder names of one line.
NamePool ==
    << <<"a">>, <<"b", "c">>, <<"d">>, <<"e">>, <<"f">> >>
Names(n) ==
    { NamePool[i] : i \in 1..(IF n < Len(NamePool) THEN n ELSE Len(NamePool)) }

\* The elements of a sequence, and the orders a set can be iterated in.
Range(s) == { s[i] : i \in DOMAIN s }
Orders(S) ==
    { s \in [1..Cardinality(S) -> S] : \A i, j \in DOMAIN s : s[i] = s[j] => i = j }
\* The mods of a ModpackConfig: names in document order, each once.
ConfigMods(n) == UNION { Orders(S) : S \in SUBSET Names(n) }

\* Vec::remove(ix) and Vec::insert(pos, a) with indices from 0; insert is
\* called with pos <= len only, it panics otherwise.
VecRemove(v, ix) == SubSeq(v, 1, ix) \o SubSeq(v, ix + 2, Len(v))
VecInsert(v, pos, a) == SubSeq(v, 1, pos) \o <<a>> \o SubSeq(v, pos + 1, Len(v))

\* What a call of change_position leaves: how it ended, and LoadOrder.0.
Ended(how, msg, v) == [state |-> how, msg |-> msg, order |-> v]

\* Variants of change_position, for comparison: one that exchanges the addon
\* with the one at pos, and one that does not remove the addon before it
\* inserts it.
ChangePositionSwap(v, addon, pos, dbg) ==
    LET at == { i \in 1..Len(v) : v[i] = addon }
    IN  IF dbg /\ pos > Len(v) THEN Ended("panic", << >>, v)
        ELSE IF at = {} THEN Ended("err", NoSuchElement, v)
        ELSE LET ix == (CHOOSE i \in at : \A j \in at : i <= j) - 1
             IN  IF pos > Len(v) - 1
                 THEN Ended("panic", << >>, VecRemove(v, ix))
                 ELSE Ended("ok", << >>,
                            [v EXCEPT ![ix + 1] = v[pos + 1], ![pos + 1] = addon])
ChangePositionKeep(v, addon, pos, dbg) ==
    LET at == { i \in 1..Len(v) : v[i] = addon }
    IN  IF dbg /\ pos > Len(v) THEN Ended("panic", << >>, v)
        ELSE IF at = {} THEN Ended("err", NoSuchElement, v)
        ELSE IF pos > Len(v) THEN Ended("panic", << >>, v)
        ELSE Ended("ok", << >>, VecInsert(v, pos, addon))

\* LoadOrder::change_position(addon, pos) on the order v, in a build with
\* debug assertions (dbg) or without.  The debug_assert panics before
\* anything else; the error leaves the order as it was; Vec::insert panics
\* when pos is beyond the length the vector has after the remove.
ChangePosition(v, addon, pos, dbg) ==
    LET at == { i \in 1..Len(v) : v[i] = addon }
    IN  IF dbg /\ pos > Len(v) THEN Ended("panic", << >>, v)
        ELSE IF at = {} THEN Ended("err", NoSuchElement, v)
        ELSE LET ix == (CHOOSE i \in at : \A j \in at : i <= j) - 1
                 removed == VecRemove(v, ix)
             IN  IF pos > Len(removed) THEN Ended("panic", << >>, removed)
                 ELSE Ended("ok", << >>, VecInsert(removed, pos, addon))

\* A variant of to_modorg_modlist, for comparison: a "-" line for every name
\* of the registry.
ToModorgModlistAll(v, keys) ==
    LOADORDER_HEADER
    \o Concat([i \in 1..Len(v) |-> <<"+">> \o v[i] \o <<"\n">>])
    \o Concat([i \in 1..Len(keys) |-> <<"-">> \o keys[i] \o <<"\n">>])

\* LoadOrder::to_modorg_modlist(all) on the order v; keys is all.0.keys(),
\* the names of the registry in the order the HashMap gives them.
ToModorgModlist(v, keys) ==
    LET enabled_mods == [i \in 1..Len(v) |-> <<"+">> \o v[i] \o <<"\n">>]
        left == SelectSeq(keys, LAMBDA k : k \notin Range(v))
        disabled_mods == [i \in 1..Len(left) |-> <<"-">> \o left[i] \o <<"\n">>]
    IN  LOADORDER_HEADER \o Concat(enabled_mods) \o Concat(disabled_mods)

\* Modpack::default(), in a build with or without debug assertions.
InitOrder ==
    /\ addons = {}
    /\ order = << >>
    /\ fromConfig = FALSE
    /\ debug \in BOOLEAN
    /\ lastCall = NoResult
    /\ modlist = NoResult
    /\ AppIdle
    /\ TxnIdle /\ SrcIdle /\ NetIdle /\ CacheIdle /\ DocIdle
    /\ LocIdle /\ MissIdle

\* A panic ends the program.
Running == lastCall.state # "panic"

\* Modpack::from(config): every name of config.mods pushed to the order and
\* inserted into the registry, in document order.
ModpackFrom ==
    /\ Running /\ ~fromConfig /\ addons = {} /\ order = << >>
    /\ \E mods \in ConfigMods(MaxNames) :
          /\ order' = mods
          /\ addons' = Range(mods)
    /\ fromConfig' = TRUE
    /\ lastCall' = NoResult /\ modlist' = NoResult
    /\ UNCHANGED debug
    /\ UNCHANGED appVars
    /\ UNCHANGED << txnVars, srcVars, netVars, cacheVars, docVars >>
    /\ UNCHANGED << locVars, missVars >>

\* LoadOrder::push(addon), as the tests build a load order.
Push ==
    /\ Running /\ ~fromConfig /\ Len(order) < MaxOrder
    /\ \E addon \in Names(MaxNames) : order' = Append(order, addon)
    /\ lastCall' = NoResult /\ modlist' = NoResult
    /\ UNCHANGED << addons, fromConfig, debug >>
    /\ UNCHANGED appVars
    /\ UNCHANGED << txnVars, srcVars, netVars, cacheVars, docVars >>
    /\ UNCHANGED << locVars, missVars >>

\* Addons::insert(name, entry)
AddonsInsert ==
    /\ Running
    /\ \E name \in Names(MaxNames) : addons' = addons \cup { name }
    /\ lastCall' = NoResult /\ modlist' = NoResult
    /\ UNCHANGED << order, fromConfig, debug >>
    /\ UNCHANGED appVars
    /\ UNCHANGED << txnVars, srcVars, netVars, cacheVars, docVars >>
    /\ UNCHANGED << locVars, missVars >>

\* order.change_position(addon, pos)
ChangePositionCall ==
    /\ Running
    /\ \E addon \in Names(MaxNames), pos \in 0..(Len(order) + 1) :
          LET end == ChangePosition(order, addon, pos, debug)
          IN  /\ order' = end.order
              /\ lastCall' = [state |-> end.state, msg |-> end.msg,
                              addon |-> addon, pos |-> pos, before |-> order]
    /\ modlist' = NoResult
    /\ UNCHANGED << addons, fromConfig, debug >>
    /\ UNCHANGED appVars
    /\ UNCHANGED << txnVars, srcVars, netVars, cacheVars, docVars >>
    /\ UNCHANGED << locVars, missVars >>

\* order.to_modorg_modlist(&addons)
Render ==
    /\ Running
    /\ \E keys \in Orders(addons) :
          modlist' = OkV(ToModorgModlist(order, keys))
    /\ lastCall' = NoResult
    /\ UNCHANGED << addons, order, fromConfig, debug >>
    /\ UNCHANGED appVars
    /\ UNCHANGED << txnVars, srcVars, netVars, cacheVars, docVars >>
    /\ UNCHANGED << locVars, missVars >>

NextOrder == ModpackFrom \/ Push \/ AddonsInsert \/ ChangePositionCall \/ Render

SpecOrder == InitOrder /\ [][NextOrder]_vars

RECURSIVE SplitLines(_)
\* str::lines: the lines of a text, without their line ends.
SplitLines(text) ==
    LET ends == { i \in 1..Len(text) : text[i] = "\n" }
    IN  IF text = << >> THEN << >>
        ELSE IF ends = {} THEN <<text>>
        ELSE LET i == CHOOSE i \in ends : \A j \in ends : i <= j
             IN  <<SubSeq(text, 1, i - 1)>>
                 \o SplitLines(SubSeq(text, i + 1, Len(text)))

\* A load order in which no name is twice and every name is in the registry.
NoDuplicates(v) == \A i, j \in 1..Len(v) : v[i] = v[j] => i = j
OrderInRegistry == NoDuplicates(order) /\ Range(order) \subseteq addons

\* C25 (load-order rendering): for a load order without duplicates whose
\* names are all in the registry, the text of to_modorg_modlist is the header
\* line, then "+name" for each name of the order in the order of the list,
\* then "-name" for each name of the registry that is not in the order; every
\* name of the registry is on exactly one line, and the text has as many
\* lines as the registry has names, and one more.
C25_ModlistLines ==
    (modlist.state = "ok" /\ OrderInRegistry) =>
        LET lines == SplitLines(modlist.v)
            n == Len(order)
        IN  /\ Len(lines) = Cardinality(addons) + 1
            /\ lines[1] \o <<"\n">> = LOADORDER_HEADER
            /\ \A i \in 1..n : lines[i + 1] = <<"+">> \o order[i]
            /\ { lines[i] : i \in (n + 2)..Len(lines) }
                   = { <<"-">> \o k : k \in addons \ Range(order) }
            /\ \A k \in addons :
                   Cardinality({ i \in 2..Len(lines) : Tail(lines[i]) = k }) = 1

\* C25 witness: a text was made for a load order of one name and a registry
\* with two more names, whose lines come after the line of the order.
C25_Witness ==
    /\ modlist.state = "ok" /\ OrderInRegistry
    /\ Len(order) = 1
    /\ Cardinality(addons \ Range(order)) = 2
    /\ Len(SplitLines(modlist.v)) = 4

\* How often a name is in a sequence, and where it is first (from 0).
Count(v, k) == Cardinality({ i \in 1..Len(v) : v[i] = k })
FirstAt(v, k) == (CHOOSE i \in 1..Len(v) : v[i] = k /\ \A j \in 1..(i - 1) : v[j] # k) - 1

\* C26 (change_position is a pure reordering): for a name that is in the
\* order and an index below its length, the call succeeds and the order is a
\* permutation of what it was, of the same length and with the same names,
\* with the name at the index and the other names in the order they had.
C26_PureReordering ==
    (/\ lastCall.state # "none"
     /\ lastCall.addon \in Range(lastCall.before)
     /\ lastCall.pos < Len(lastCall.before)) =>
        /\ lastCall.state = "ok"
        /\ Len(order) = Len(lastCall.before)
        /\ Range(order) = Range(lastCall.before)
        /\ \A k \in Range(order) : Count(order, k) = Count(lastCall.before, k)
        /\ order[lastCall.pos + 1] = lastCall.addon
        /\ VecRemove(order, lastCall.pos)
               = VecRemove(lastCall.before,
                           FirstAt(lastCall.before, lastCall.addon))

\* C26 witness: the last of three names was moved to the front.
C26_Witness ==
    /\ lastCall.state = "ok"
    /\ Len(lastCall.before) = 3
    /\ lastCall.addon = lastCall.before[3]
    /\ lastCall.pos = 0
    /\ order = << lastCall.before[3], lastCall.before[1], lastCall.before[2] >>
    /\ NoDuplicates(order)

\* C27 (unknown name): change_position with a name that is not in the order
\* returns the error "No such element" and leaves the order as it was.
C27_UnknownAddonError ==
    (/\ lastCall.state # "none"
     /\ lastCall.addon \notin Range(lastCall.before)) =>
        /\ lastCall.state = "err"
        /\ lastCall.msg = NoSuchElement
        /\ order = lastCall.before

\* C28 (index at or beyond the length): change_position with a name that is
\* in the order and an index not below its length succeeds and puts the name
\* last, the other names in the order they had.
C28_ClampedToAppend ==
    (/\ lastCall.state # "none"
     /\ lastCall.addon \in Range(lastCall.before)
     /\ lastCall.pos >= Len(lastCall.before)) =>
        /\ lastCall.state = "ok"
        /\ order = VecRemove(lastCall.before,
                             FirstAt(lastCall.before, lastCall.addon))
                   \o << lastCall.addon >>

\* C29 (load-order invariant): after Modpack::from(config) and any
\* change_position calls, whether they succeeded, failed or panicked, no
\* name is twice in the order and every name of the order is in the
\* registry.
C29_OrderInvariant ==
    fromConfig => (NoDuplicates(order) /\ Range(order) \subseteq addons)

\* C29 witness: a Modpack made from a configuration of three names, after a
\* change_position call that changed the order.
C29_Witness ==
    /\ fromConfig
    /\ Len(order) = 3
    /\ lastCall.state = "ok"
    /\ order # lastCall.before

\* ---------------------------------------------------------------------------
\* The addons that are not installed (Addons::missing_addons of addonlist.rs,
\* InstanceConfigData::missing_addons of config.rs).  The registry is the
\* variable addons; modsDir is <mo_dir>/mods: absent, or a directory with,
\* by name, empty directories ("dir"), directories with something in them
\* ("full") and files ("file").
\* ---------------------------------------------------------------------------

NoModsDir == [kind |-> "absent", entries |-> << >>]
ModsDirs(n) ==
    { NoModsDir }
    \cup { [kind |-> "dir", entries |-> e] :
             e \in UNION { [S -> { "dir", "full", "file" }] : S \in SUBSET Names(n) } }

\* mods_dir.join(m).is_dir()
IsDir(mods, m) ==
    /\ mods.kind = "dir"
    /\ m \in DOMAIN mods.entries
    /\ mods.entries[m] \in { "dir", "full" }

\* A variant of missing_addons, for comparison: every name of the registry.
MissingAddonsAll(keys, mods) == keys

\* A variant of missing_addons, for comparison: with exists() in the place of
\* is_dir().
MissingAddonsExists(keys, mods) ==
    SelectSeq(keys, LAMBDA m : ~(mods.kind = "dir" /\ m \in DOMAIN mods.entries))

\* Addons::missing_addons(mo_dir); keys is self.0.keys(), the names of the
\* registry in the order the HashMap gives them.
MissingAddons(keys, mods) == SelectSeq(keys, LAMBDA m : ~IsDir(mods, m))

\* A registry and a mods directory.
InitMissing ==
    /\ addons \in SUBSET Names(MaxNames)
    /\ modsDir \in ModsDirs(MaxNames)
    /\ missing = NoResult
    /\ unknown = NoResult
    /\ order = << >> /\ fromConfig = FALSE /\ debug = FALSE
    /\ lastCall = NoResult /\ modlist = NoResult
    /\ AppIdle
    /\ TxnIdle /\ SrcIdle /\ NetIdle /\ CacheIdle /\ DocIdle /\ LocIdle

\* addons.missing_addons(mo_dir)
MissingAddonsCall ==
    /\ missing = NoResult
    /\ \E keys \in Orders(addons) : missing' = OkV(MissingAddons(keys, modsDir))
    /\ UNCHANGED << modsDir, unknown, ordVars >>
    /\ UNCHANGED appVars
    /\ UNCHANGED << txnVars, srcVars, netVars, cacheVars, docVars, locVars >>

\* A variant of unknown_addons, for comparison: every name of the listing.
UnknownAddonsAll(listing, registry) == listing

\* InstanceConfigData::unknown_addons on the names read_dir gives for
\* <mo_dir>/mods, in the order it gives them: the names that are not in the
\* registry.
UnknownAddons(listing, registry) ==
    SelectSeq(listing, LAMBDA s : s \notin registry)

\* config.unknown_addons(): read_dir lists the entries directly in
\* <mo_dir>/mods, files and directories, in the order of the filesystem; the
\* unwrap of its result panics when the directory is not there.
UnknownAddonsCall ==
    /\ unknown = NoResult
    /\ IF modsDir.kind = "dir"
       THEN \E listing \in Orders(DOMAIN modsDir.entries) :
               unknown' = OkV(UnknownAddons(listing, addons))
       ELSE unknown' = [state |-> "panic", msg |-> << >>]
    /\ UNCHANGED << modsDir, missing, ordVars >>
    /\ UNCHANGED appVars
    /\ UNCHANGED << txnVars, srcVars, netVars, cacheVars, docVars, locVars >>

NextMissing == MissingAddonsCall \/ UnknownAddonsCall

SpecMissing == InitMissing /\ [][NextMissing]_vars

\* C30 (missing_addons): the result holds exactly the names of the registry
\* for which <mo_dir>/mods has no directory of that name, each once; a name
\* whose directory exists is not in it, whether the directory is empty or
\* not, and a name whose directory does not exist is in it.
C30_MissingExactly ==
    missing.state = "ok" =>
        /\ NoDuplicates(missing.v)
        /\ \A k \in addons :
               k \in Range(missing.v) <=>
                   ~(/\ modsDir.kind = "dir"
                     /\ k \in DOMAIN modsDir.entries
                     /\ modsDir.entries[k] # "file")
        /\ Range(missing.v) \subseteq addons

\* C30 witness: of three names of the registry one has a directory with
\* something in it, one has a file of its name and one has nothing; the
\* result holds the last two.
C30_Witness ==
    /\ missing.state = "ok"
    /\ Cardinality(addons) = 3
    /\ modsDir.kind = "dir"
    /\ \E k \in addons :
          /\ k \in DOMAIN modsDir.entries /\ modsDir.entries[k] = "full"
          /\ k \notin Range(missing.v)
    /\ \E k \in addons :
          /\ k \in DOMAIN modsDir.entries /\ modsDir.entries[k] = "file"
          /\ k \in Range(missing.v)
    /\ \E k \in addons : k \notin DOMAIN modsDir.entries
    /\ Len(missing.v) = 2

\* C31 (unknown_addons): the result holds exactly the names of the entries
\* directly in <mo_dir>/mods that are not names of the registry, each once,
\* and for the same registry and mods directory no name is in the results
\* of both unknown_addons and missing_addons.
C31_UnknownExactly ==
    unknown.state = "ok" =>
        /\ NoDuplicates(unknown.v)
        /\ Range(unknown.v) = DOMAIN modsDir.entries \ addons
        /\ missing.state = "ok" =>
               Range(unknown.v) \cap Range(missing.v) = {}

\* C31 witness: the mods directory holds a directory of the registry, and a
\* directory with something in it and a file that are not of the registry;
\* unknown_addons gave the last two, missing_addons a name without directory.
C31_Witness ==
    /\ unknown.state = "ok" /\ missing.state = "ok"
    /\ Len(unknown.v) = 2 /\ Len(missing.v) = 1
    /\ \E k \in Range(unknown.v) : modsDir.entries[k] = "full"
    /\ \E k \in Range(unknown.v) : modsDir.entries[k] = "file"
    /\ \E k \in addons : k \in DOMAIN modsDir.entries

\* ---------------------------------------------------------------------------
\* Modpack::install (addonlist.rs): the missing addons are fetched through a
\* DownloadCache, located and copied into a temporary directory, one folder
\* per addon, and that directory is then copied over <mo_dir>/mods by one
\* guarded transaction.  Paths are below <mo_dir>/mods, below the temporary
\* directory, or below an unpacked archive; their first component below mods
\* and below the temporary directory is the name of an addon.
\* ---------------------------------------------------------------------------

\* the number of addons of a Modpack
MaxPack == 2
\* the number of install calls
MaxRuns == 2

\* The entries of the registries of the model, and the registries.
PackEntries ==
    { [download |-> k, addon_folder |-> f] :
        k \in { UrlKey, ModdbKey }, f \in { None, Some(Sub) } }
\* The registries of the first k names, k up to n.
Packs(n) == UNION { [Names(k) -> PackEntries] : k \in 0..n }

\* What the archives of the model unpack to: an addon at the root, an addon
\* in the folder sub, and no addon.
RootPayload ==
    (<<GAMEDATA>> :> DirNode) @@ (<<GAMEDATA, Abc>> :> FileNode("new"))
SubPayload ==
    (<<Sub>> :> DirNode) @@ (<<Sub, GAMEDATA>> :> DirNode)
    @@ (<<Sub, Abc>> :> FileNode("new"))
NoPayload ==
    (<<Abc>> :> FileNode("new"))
\* The archives behind the two keys: each key gets each payload once, the two
\* keys never the same one.
ArchiveSets ==
    { (UrlKey :> x[1]) @@ (ModdbKey :> x[2]) :
        x \in { << RootPayload, SubPayload >>, << SubPayload, NoPayload >>,
                << NoPayload, RootPayload >> } }

\* What can be below mods under the name of an addon: nothing, an empty
\* directory, a directory with a file, or a file.
UnderName(name, what) ==
    CASE what = "none" -> EmptyTree
      [] what = "dir" -> (<<name>> :> DirNode)
      [] what = "full" -> (<<name>> :> DirNode) @@ (<<name, Abc>> :> FileNode(OldData))
      [] what = "file" -> (<<name>> :> FileNode(OldData))
RECURSIVE Merged(_, _)
Merged(state, names) ==
    IF names = {} THEN EmptyTree
    ELSE LET k == CHOOSE k \in names : TRUE
         IN  Overlay(UnderName(k, state[k]), Merged(state, names \ { k }))
\* The trees below mods over the first n names: any of the four for a name
\* of the registry, nothing or a directory with a file for another name.
ModsTrees(n, registry) ==
    { Merged(state, Names(n)) :
        state \in { f \in [Names(n) -> { "none", "dir", "full", "file" }] :
                      \A k \in Names(n) \ registry : f[k] \in { "none", "full" } } }

\* A tree as the locator and missing_addons see it.
KindTree(t) == [p \in DOMAIN t |-> IF t[p].isdir THEN "dir" ELSE "file"]
ModsView(t) ==
    [kind |-> "dir",
     entries |-> [k \in { p[1] : p \in DOMAIN t } |->
                    IF ~t[<<k>>].isdir THEN "file"
                    ELSE IF \E p \in DOMAIN t : Len(p) > 1 /\ p[1] = k THEN "full"
                    ELSE "dir"]]

\* The tree below the directory d of the tree t.
Subtree(t, d) ==
    LET below == { q \in DOMAIN t : Len(q) > Len(d) /\ SubSeq(q, 1, Len(d)) = d }
    IN  [p \in { SubSeq(q, Len(d) + 1, Len(q)) : q \in below } |-> t[d \o p]]

\* Result<()> of Modpack::install: the error is the error of the step that
\* failed, with the context that was attached to it on the way up.
Success == [state |-> "ok", step |-> "done", msg |-> "", context |-> << >>]
Failure(step, msg, context) ==
    [state |-> "err", step |-> step, msg |-> msg, context |-> context]

\* The ? operator in the loop of install: the error of the step is returned
\* as it is.
Propagate(step, msg, addon) == Failure(step, msg, << >>)

\* A registry, the archives behind its keys and a mods directory.
InitInstall ==
    /\ pack \in Packs(MaxPack)
    /\ archives \in ArchiveSets
    /\ modsTree \in ModsTrees(MaxPack, DOMAIN pack)
    /\ modsBefore = modsTree
    /\ staging = EmptyTree
    /\ pending = << >>
    /\ ipc = "ready"
    /\ outcome = NoResult
    /\ runs = 0
    /\ repeated = FALSE
    /\ cache = << >> /\ calls = << >>
    /\ TxnIdle /\ SrcIdle /\ NetIdle /\ DocIdle
    /\ LocIdle /\ OrdIdle /\ MissIdle /\ GuiIdle /\ ExeIdle

\* Modpack::install up to its loop: a temporary directory, a new
\* DownloadCache, and missing_addons(mo_dir) in the order of the HashMap.
InstallStart ==
    /\ ipc \in { "ready", "returned" }
    /\ runs < MaxRuns
    /\ runs' = runs + 1
    /\ \E keys \in Orders(DOMAIN pack) :
          pending' = MissingAddons(keys, ModsView(modsTree))
    /\ staging' = EmptyTree
    /\ cache' = << >> /\ calls' = << >>
    /\ modsBefore' = modsTree
    /\ ipc' = "loop"
    /\ outcome' = NoResult
    /\ repeated' = (outcome.state = "ok")
    /\ UNCHANGED << pack, archives, modsTree >>
    /\ UNCHANGED << txnVars, srcVars, netVars, docVars, locVars, ordVars, missVars >>
    /\ UNCHANGED << guiVars, exeVars >>

\* One turn of the loop of install: get_or_download, Addons::install,
\* create_dir of the addon's folder in the temporary directory, and the run
\* of the transaction into it.  Any error ends install.
InstallAddon ==
    /\ ipc = "loop" /\ pending # << >>
    /\ LET addon == Head(pending)
           entry == pack[addon]
           dl_dir == archives[entry.download]
       IN  \E rem \in CacheRemotes, ok \in BOOLEAN :
             LET out == GetOrDownload(cache, entry.download, rem,
                                      [ok |-> ok, dir |-> Cardinality(Fetches) + 1])
             IN  /\ cache' = out.cache
                 /\ calls' = Append(calls, [name |-> addon, key |-> entry.download,
                                            resolved |-> out.resolved,
                                            fetched |-> out.fetched, res |-> out.res])
                 /\ IF out.res.state # "ok"
                    THEN /\ outcome' = Propagate(IF out.fetched THEN "fetch" ELSE "resolve",
                                                 out.res.msg, addon)
                         /\ ipc' = "returned"
                         /\ UNCHANGED << staging, pending >>
                    ELSE \E loc \in Install(entry.addon_folder, KindTree(dl_dir)) :
                           IF loc.state # "ok"
                           THEN /\ outcome' = Propagate("locate", loc.msg, addon)
                                /\ ipc' = "returned"
                                /\ UNCHANGED << staging, pending >>
                           ELSE \E o \in CopyOutcomes(Subtree(dl_dir, loc.v), <<addon>>,
                                                      WithDirs(staging, { <<addon>> })) :
                                  /\ staging' = o.fs
                                  /\ IF o.ok
                                     THEN /\ pending' = Tail(pending)
                                          /\ UNCHANGED << ipc, outcome >>
                                     ELSE /\ outcome' = Propagate("stage", o.err, addon)
                                          /\ ipc' = "returned"
                                          /\ UNCHANGED pending
    /\ UNCHANGED << pack, archives, modsTree, modsBefore, runs, repeated >>
    /\ UNCHANGED << txnVars, srcVars, netVars, docVars, locVars, ordVars, missVars >>
    /\ UNCHANGED << guiVars, exeVars >>

\* The end of install: the temporary directory as a BasicTransaction, guarded
\* with a new temporary directory as its backup (the SafeTransaction of
\* backup.rs on that directory) and run on <mo_dir>/mods: the backup, the
\* copy and, when the copy fails, the reverse.
InstallCommit ==
    /\ ipc = "loop" /\ pending = << >>
    /\ LET txn == Basic(staging)
           paths == RelPaths(txn)
       IN  \E b \in BackupOutcomes(paths, modsTree, EmptyTree) :
             IF ~b.ok
             THEN /\ outcome' = Failure("backup", b.err, << >>)
                  /\ UNCHANGED modsTree
             ELSE \E a \in RunOutcomes(txn, << >>, modsTree) :
                    IF a.ok
                    THEN /\ outcome' = Success
                         /\ modsTree' = a.fs
                    ELSE \E r \in ReverseOutcomes(paths, b.fs, a.fs) :
                           /\ modsTree' = r.fs
                           /\ outcome' =
                                IF r.ok
                                THEN Failure("reverted", RevertedMsg(a.err), << >>)
                                ELSE Failure("unrecoverable",
                                             UnrecoverableMsg(a.err, r.err), << >>)
    /\ ipc' = "returned"
    /\ UNCHANGED << pack, archives, modsBefore, staging, pending, runs, repeated >>
    /\ UNCHANGED << cacheVars, txnVars, srcVars, netVars, docVars >>
    /\ UNCHANGED << locVars, ordVars, missVars, guiVars, exeVars >>

NextInstall == InstallStart \/ InstallAddon \/ InstallCommit

SpecInstall == InitInstall /\ [][NextInstall]_vars

\* C32 (batched install is all-or-nothing): while install is in its loop
\* nothing below mods has changed, and when install has returned an error,
\* other than the one of a failed reverse, the files below mods and their
\* contents are what they were when install began.
C32_AllOrNothing ==
    /\ ipc = "loop" => modsTree = modsBefore
    /\ (ipc = "returned" /\ outcome.state = "err"
        /\ outcome.step # "unrecoverable") =>
           FilesOf(modsTree) = FilesOf(modsBefore)

\* C32 witness: two addons were staged, the copy over mods failed after it
\* had written a file, the reverse succeeded and install returned the error.
C32_Witness ==
    /\ ipc = "returned"
    /\ outcome.state = "err" /\ outcome.step = "reverted"
    /\ Cardinality(FilePaths(staging)) = 2
    /\ Len(calls) = 2
    /\ FilesOf(modsTree) = FilesOf(modsBefore)
    /\ modsTree # modsBefore

\* The registry names that had a directory below mods when install began.
Present == { k \in DOMAIN pack : IsDir(ModsView(modsBefore), k) }

\* C33 (install only touches missing addons): for a name of the registry
\* whose directory is below mods when install begins, empty or not, install
\* makes no get_or_download call, so no resolve and no fetch, and the files
\* below that directory stay as they were.
C33_PresentUntouched ==
    ipc \in { "loop", "returned" } =>
        \A k \in Present :
            /\ \A i \in 1..Len(calls) : calls[i].name # k
            /\ FilesOf(Subtree(modsTree, <<k>>)) = FilesOf(Subtree(modsBefore, <<k>>))

\* C33 witness: of two names of the registry one has a directory with a file
\* below mods; install fetched the other one only and returned Ok.
C33_Witness ==
    /\ ipc = "returned" /\ outcome.state = "ok"
    /\ Cardinality(DOMAIN pack) = 2
    /\ \E k \in Present : FilePaths(Subtree(modsBefore, <<k>>)) # {}
    /\ Len(calls) = 1 /\ calls[1].fetched
    /\ FilePaths(modsTree) # FilePaths(modsBefore)

\* C34 (per-addon error locality): when resolve or fetch fails for an addon,
\* the error install returns has the name of that addon attached.
C34_ErrorNamesAddon ==
    (/\ ipc = "returned"
     /\ outcome.state = "err"
     /\ outcome.step \in { "resolve", "fetch" }) =>
        calls[Len(calls)].name \in Range(outcome.context)

\* The payloads Addons::install can give for the entry of a name, and a
\* directory below mods holding one of them.
Payloads(k) ==
    LET dl_dir == archives[pack[k].download]
    IN  { Subtree(dl_dir, loc.v) :
            loc \in { l \in Install(pack[k].addon_folder, KindTree(dl_dir)) :
                        l.state = "ok" } }
Holds(k, payload) ==
    \A p \in DOMAIN payload :
        <<k>> \o p \in DOMAIN modsTree /\ modsTree[<<k>> \o p] = payload[p]
NothingMissing ==
    \A keys \in Orders(DOMAIN pack) :
        MissingAddons(keys, ModsView(modsTree)) = << >>
Idempotent ==
    (ipc = "returned" /\ repeated) =>
        (outcome.state = "ok" /\ calls = << >> /\ modsTree = modsBefore)

\* C35 as stated (postcondition and idempotence): after install returned Ok,
\* every name of the registry has a directory below mods that holds the
\* located payload of its addon, missing_addons gives nothing, and an
\* install that follows at once makes no get_or_download call and leaves
\* mods as it is.
C35_EveryAddonHoldsPayload ==
    /\ (ipc = "returned" /\ outcome.state = "ok") =>
           /\ \A k \in DOMAIN pack :
                  /\ IsDirAt(modsTree, <<k>>)
                  /\ \E payload \in Payloads(k) : Holds(k, payload)
           /\ NothingMissing
    /\ Idempotent

\* C35 (postcondition and idempotence): after install returned Ok, every
\* name of the registry has a directory below mods, which holds the located
\* payload of its addon if the name was missing when install began;
\* missing_addons gives nothing, and an install that follows at once makes
\* no get_or_download call and leaves mods as it is.
C35_InstalledAndIdempotent ==
    /\ (ipc = "returned" /\ outcome.state = "ok") =>
           /\ \A k \in DOMAIN pack :
                  /\ IsDirAt(modsTree, <<k>>)
                  /\ k \notin Present =>
                         \E payload \in Payloads(k) :
                             Subtree(modsTree, <<k>>) = payload
           /\ NothingMissing
    /\ Idempotent

\* C35 witness: the second of two installs has returned; the first one had
\* installed two addons from one archive, the second made no call.
C35_Witness ==
    /\ ipc = "returned" /\ repeated /\ runs = 2
    /\ calls = << >>
    /\ Cardinality(DOMAIN pack) = 2
    /\ \A k \in DOMAIN pack :
          \E payload \in Payloads(k) : Subtree(modsTree, <<k>>) = payload
    /\ \A k \in DOMAIN pack : pack[k].download = ModdbKey

BackupFailed == backupRes \notin { "none", "" }

\* C36 (backup precedes apply): in SafeTransaction::run nothing is written
\* to the destination before backup has returned Ok, and then every path of
\* the inner transaction that is a file at the destination has its copy in
\* the backup directory; when backup fails the inner run is not called,
\* reverse is not called, the destination is as it was and run returns the
\* error of backup.
C36_BackupPrecedesApply ==
    /\ pc \in { "build", "newfailed", "guard", "backedup" } => dest = dest0
    /\ (newRes = "" /\ applyRes # "none") => backupRes = ""
    /\ pc = "backedup" =>
           \A p \in RelPaths(tr) :
               IsFileAt(dest0, p) => IsFileAt(bak.tree, p) /\ bak.tree[p] = dest0[p]
    /\ BackupFailed =>
           /\ applyRes = "none" /\ reverseRes = "none"
           /\ dest = dest0
           /\ RunReturned /\ result = Err(<<backupRes>>)

\* C36 witness: backup failed at a path after it had copied another one, and
\* run has returned.
C36_Witness ==
    /\ pc = "returned" /\ BackupFailed
    /\ \E p \in RelPaths(tr) : IsFileAt(bakSaved, p) /\ IsFileAt(dest0, p)
    /\ \E p \in RelPaths(tr) : ~IsFileAt(dest0, p)


\* ----------------------------------------------------- InstallModdedExes

\* The most InstallModdedExes runs of a behaviour.
MaxExesRuns == 2

VanillaData == "vanilla"
ModdedData == << "modded1", "modded2" >>
BinDir == <<"bin">>
ExeFiles == { <<"bin", "AnomalyDX11.exe">>, <<"bin", "AnomalyDX9.exe">> }

\* A directory bin with the files F, each holding c.
BinTree(F, c) ==
    Overlay([p \in { BinDir } |-> DirNode], [p \in F |-> FileNode(c)])
\* What the zip of a release of the modded exes unpacks to.
ExesReleases ==
    { BinTree(F, ModdedData[i]) : F \in (SUBSET ExeFiles) \ { {} }, i \in 1..2 }
\* The game's directory before the first run: no bin, or bin with some of
\* the exes.
GameTrees == { EmptyTree } \cup { BinTree(F, VanillaData) : F \in SUBSET ExeFiles }

Panic(msg) == [state |-> "panic", msg |-> msg]
ExesOutcome(res, fs, bk) == [res |-> res, fs |-> fs, bk |-> bk]

\* InstallModdedExes::backup_files: every path that is a file below the
\* current directory is copied to the same path below backup_dir, after
\* create_dir_all of its parent; both are unwrapped.  A failure panics after
\* some of the files were copied.
BackupFiles(files, fs, bk) ==
    LET found == { p \in files : IsFileAt(fs, p) }
        bad == { p \in found : ~CanMkdirAll(bk, Parent(p)) \/ IsDirAt(bk, p) }
        Copied(W) == Overlay(WithDirs(bk, { Parent(p) : p \in W }), [p \in W |-> fs[p]])
    IN  { Outcome(TRUE, Copied(found), "") : x \in IF bad = {} THEN {1} ELSE {} }
        \cup { Outcome(FALSE, Copied(W), "Backing up") :
                 W \in (SUBSET (found \ bad)) \ { found } }

\* InstallModdedExes::run on the game's tree fs and the backup tree bk, with
\* the release rel: the download and unpack_zip return their errors, then
\* backup_files, then fs_extra::dir::copy of the unpacked files over the
\* current directory, unwrapped.
ExesOutcomes(rel, fs, bk) ==
    { ExesOutcome(Err(<<e>>), fs, bk) :
        e \in { "Couldn't find the link for modded exes", "reqwest::Error", "ZipError" } }
    \cup
    UNION { IF ~b.ok
            THEN { ExesOutcome(Panic(<<b.err>>), fs, b.fs) }
            ELSE { ExesOutcome(IF o.ok THEN Ok ELSE Panic(<<o.err>>), o.fs, b.fs) :
                     o \in CopyOutcomes(rel, << >>, fs) }
            : b \in BackupFiles(FilePaths(rel), fs, bk) }

InitExes ==
    /\ game \in GameTrees
    /\ vanilla = EmptyTree
    /\ game0 = game
    /\ gameBefore = game
    /\ exesRuns = 0
    /\ exesResult = NoResult
    /\ TxnIdle /\ SrcIdle /\ NetIdle /\ CacheIdle /\ DocIdle
    /\ LocIdle /\ OrdIdle /\ MissIdle /\ InstIdle /\ GuiIdle

\* One call of InstallModdedExes::run.
InstallModdedExesRun ==
    /\ exesRuns < MaxExesRuns
    /\ exesRuns' = exesRuns + 1
    /\ gameBefore' = game
    /\ \E rel \in ExesReleases :
         \E o \in ExesOutcomes(rel, game, vanilla) :
            /\ game' = o.fs
            /\ vanilla' = o.bk
            /\ exesResult' = o.res
    /\ UNCHANGED game0
    /\ UNCHANGED << txnVars, srcVars, netVars, cacheVars, docVars >>
    /\ UNCHANGED << locVars, ordVars, missVars, instVars, guiVars >>

NextExes == InstallModdedExesRun

SpecExes == InitExes /\ [][NextExes]_vars

\* Every file of the backup holds what the game's file held before the
\* first run.
VanillaKept ==
    \A p \in FilePaths(vanilla) : IsFileAt(game0, p) /\ vanilla[p] = game0[p]
\* Every file the latest run wrote over is in the backup with the content it
\* had when that run began.
BackedUpBeforeOverwrite ==
    \A p \in FilePaths(gameBefore) :
        (p \notin DOMAIN game \/ game[p] # gameBefore[p]) =>
            IsFileAt(vanilla, p) /\ vanilla[p] = gameBefore[p]

\* C39 (the vanilla backup is preserved): after any number of
\* InstallModdedExes runs every file below BACKUP_Vanilla_exes holds what the
\* game's file held before the first run, and every file a run wrote over
\* had been copied to the backup before that run wrote over it.
C39_VanillaPreserved == VanillaKept /\ BackedUpBeforeOverwrite


\* A state C39 excludes: two runs have returned Ok and the backup holds, for
\* a file of the vanilla game, what the first run had installed.
C39_BackupOverwritten ==
    /\ exesRuns = 2 /\ exesResult = Ok
    /\ \E p \in ExeFiles :
          /\ IsFileAt(game0, p) /\ game0[p].data = VanillaData
          /\ IsFileAt(vanilla, p) /\ vanilla[p].data = ModdedData[1]


\* ------------------------------------------------ the application's states

\* The most threads the buttons start in a behaviour.
MaxSpawns == 2

\* InstallMo2Progress::default() and the values a run gives its fields.
DefaultProgress ==
    [download |-> None, unpacking_done |-> None, configuring_done |-> None,
     finished |-> FALSE]
\* Operation<InstallModdedExes>: the progress is ().
UnitProgress == << >>

\* What FileTransaction::new(modorg_tmp) holds: the unpacked release with the
\* two files configure_mo2 writes.
Mo2Tr ==
    Basic([p \in { <<"ModOrganizer.exe">>, <<"ModOrganizer.ini">>, <<"nxmhandler.ini">> }
             |-> FileNode(SrcData(1))])
\* <anomaly_dir>/mo2 before the application starts: nothing, or an install
\* whose ModOrganizer.ini the user has edited.
Mo2Trees == { EmptyTree, [p \in { <<"ModOrganizer.ini">> } |-> FileNode(OldData)] }

Thread(kind, progress) ==
    [kind |-> kind, at |-> "start", progress |-> progress, applyRes |-> "none",
     result |-> NoResult]

\* TemplateApp::default(): the state from the two files of the game, found
\* or not.
InitApp ==
    /\ appState \in { "NoAnomaly", "GameNotInitialized", "Normal" }
    /\ op = 0
    /\ workers = << >>
    /\ mo2 \in Mo2Trees
    /\ backupDir \in BakStates
    /\ game = BinTree(ExeFiles, VanillaData)
    /\ vanilla = EmptyTree
    /\ game0 = game
    /\ gameBefore = game
    /\ exesRuns = 0
    /\ exesResult = NoResult
    /\ TxnIdle /\ SrcIdle /\ NetIdle /\ CacheIdle /\ DocIdle
    /\ LocIdle /\ OrdIdle /\ MissIdle /\ InstIdle

OtherParts ==
    UNCHANGED << txnVars, srcVars, netVars, cacheVars, docVars,
                 locVars, ordVars, missVars, instVars >>

\* A frame painted by paint_normal in which "Install MO2" is clicked: the
\* thread is spawned and the state holds its Operation.
ClickInstallMo2 ==
    /\ appState = "Normal"
    /\ Len(workers) < MaxSpawns
    /\ workers' = Append(workers, Thread("mo2", DefaultProgress))
    /\ op' = Len(workers) + 1
    /\ appState' = "InstallMo2"
    /\ UNCHANGED << mo2, backupDir, exeVars >>
    /\ OtherParts

\* A frame painted by paint_normal in which "Install Modded Exes" is clicked.
ClickInstallModdedExes ==
    /\ appState = "Normal"
    /\ Len(workers) < MaxSpawns
    /\ workers' = Append(workers, Thread("exes", UnitProgress))
    /\ op' = Len(workers) + 1
    /\ appState' = "InstallModdedExes"
    /\ UNCHANGED << mo2, backupDir, exeVars >>
    /\ OtherParts

\* The window paint shows while lock.finished holds.
DialogShown == appState = "InstallMo2" /\ workers[op].progress.finished

\* A frame painted by Operation<InstallMo2>::paint in which "Okay ^^" is
\* clicked: the state is Normal again, the Operation with its JoinHandle is
\* dropped and the thread goes on by itself.
ClickOkay ==
    /\ DialogShown
    /\ appState' = "Normal"
    /\ op' = 0
    /\ UNCHANGED << workers, mo2, backupDir, exeVars >>
    /\ OtherParts

At(w, kind, at) ==
    w \in 1..Len(workers) /\ workers[w].kind = kind /\ workers[w].at = at
Step(w, at, progress, inner, res) ==
    workers' = [workers EXCEPT ![w] =
                  [kind |-> @.kind, at |-> at, progress |-> progress,
                   applyRes |-> inner, result |-> res]]

\* InstallMo2::run up to unpack_temporary: the 7zip unpacker and the download
\* are unwrapped; then download and unpacking_done are reported.
Mo2Download(w) ==
    /\ At(w, "mo2", "start")
    /\ \E ok \in BOOLEAN :
         IF ok
         THEN Step(w, "downloaded",
                   [workers[w].progress EXCEPT !.download = Some("Mod.Organizer.7z"),
                                               !.unpacking_done = Some(FALSE)],
                   "none", NoResult)
         ELSE Step(w, "panicked", workers[w].progress, "none", Panic(<<"unwrap">>))
    /\ UNCHANGED << appState, op, mo2, backupDir, exeVars >>
    /\ OtherParts

\* unpack_temporary(..)? and the report that follows it.
Mo2Unpack(w) ==
    /\ At(w, "mo2", "downloaded")
    /\ \E ok \in BOOLEAN :
         IF ok
         THEN Step(w, "unpacked",
                   [workers[w].progress EXCEPT !.unpacking_done = Some(TRUE),
                                               !.configuring_done = Some(FALSE)],
                   "none", NoResult)
         ELSE Step(w, "returned", workers[w].progress, "none", Err(<<"unpack">>))
    /\ UNCHANGED << appState, op, mo2, backupDir, exeVars >>
    /\ OtherParts

\* configure_mo2(..)? and the report that follows it: configuring_done and
\* finished are set together.
Mo2Configure(w) ==
    /\ At(w, "mo2", "unpacked")
    /\ \E ok \in BOOLEAN :
         IF ok
         THEN Step(w, "configured",
                   [workers[w].progress EXCEPT !.configuring_done = Some(TRUE),
                                               !.finished = TRUE],
                   "none", NoResult)
         ELSE Step(w, "returned", workers[w].progress, "none", Err(<<"configure">>))
    /\ UNCHANGED << appState, op, mo2, backupDir, exeVars >>
    /\ OtherParts

\* FileTransaction::new(modorg_tmp)? and tr.backup(&mo_dir, &backup_dir)?:
\* the guard is made when the backup path is absent or an empty directory.
Mo2Guard(w) ==
    /\ At(w, "mo2", "configured")
    /\ LET e == CheckBackupDir(backupDir)
       IN  IF e = ""
           THEN /\ backupDir' = ADir(backupDir.tree)
                /\ Step(w, "guard", workers[w].progress, "none", NoResult)
           ELSE /\ backupDir' = backupDir
                /\ Step(w, "returned", workers[w].progress, "none", Err(<<e>>))
    /\ UNCHANGED << appState, op, mo2, exeVars >>
    /\ OtherParts

\* safe_tr.run(), first statement: the backup of the files of mo2.
Mo2Backup(w) ==
    /\ At(w, "mo2", "guard")
    /\ \E o \in BackupOutcomes(RelPaths(Mo2Tr), mo2, backupDir.tree) :
         /\ backupDir' = IF o.fs = backupDir.tree THEN backupDir ELSE ADir(o.fs)
         /\ IF o.ok
            THEN Step(w, "backedup", workers[w].progress, "none", NoResult)
            ELSE Step(w, "ran", workers[w].progress, "none", Err(<<o.err>>))
    /\ UNCHANGED << appState, op, mo2, exeVars >>
    /\ OtherParts

\* safe_tr.run(), second statement: the inner run into mo2.
Mo2Apply(w) ==
    /\ At(w, "mo2", "backedup")
    /\ \E o \in RunOutcomes(Mo2Tr, << >>, mo2) :
         /\ mo2' = o.fs
         /\ IF o.ok
            THEN Step(w, "ran", workers[w].progress, "", Ok)
            ELSE Step(w, "applyfailed", workers[w].progress, o.err, NoResult)
    /\ UNCHANGED << appState, op, backupDir, exeVars >>
    /\ OtherParts

\* safe_tr.run(), the Err(r) branch: reverse and the bail!.
Mo2Reverse(w) ==
    /\ At(w, "mo2", "applyfailed")
    /\ \E o \in ReverseOutcomes(RelPaths(Mo2Tr), backupDir.tree, mo2) :
         /\ mo2' = o.fs
         /\ Step(w, "ran", workers[w].progress, workers[w].applyRes,
                 IF o.ok THEN Err(RevertedMsg(workers[w].applyRes))
                 ELSE Err(UnrecoverableMsg(workers[w].applyRes, o.err)))
    /\ UNCHANGED << appState, op, backupDir, exeVars >>
    /\ OtherParts

\* The end of InstallMo2::run: the guard is dropped, which removes the
\* backup directory unless the removal fails, and the thread ends.
Mo2Drop(w) ==
    /\ At(w, "mo2", "ran")
    /\ \E fault \in BOOLEAN : backupDir' = IF fault THEN backupDir ELSE Absent
    /\ Step(w, "returned", workers[w].progress, workers[w].applyRes, workers[w].result)
    /\ UNCHANGED << appState, op, mo2, exeVars >>
    /\ OtherParts

\* The thread of "Install Modded Exes": InstallModdedExes::run.
ExesThread(w) ==
    /\ At(w, "exes", "start")
    /\ exesRuns' = exesRuns + 1
    /\ gameBefore' = game
    /\ \E rel \in ExesReleases :
         \E o \in ExesOutcomes(rel, game, vanilla) :
            /\ game' = o.fs
            /\ vanilla' = o.bk
            /\ exesResult' = o.res
            /\ Step(w, IF o.res.state = "panic" THEN "panicked" ELSE "returned",
                    workers[w].progress, "none", o.res)
    /\ UNCHANGED << appState, op, mo2, backupDir, game0 >>
    /\ OtherParts

NextApp ==
    \/ ClickInstallMo2
    \/ ClickInstallModdedExes
    \/ ClickOkay
    \/ \E w \in 1..MaxSpawns :
          \/ Mo2Download(w)
          \/ Mo2Unpack(w)
          \/ Mo2Configure(w)
          \/ Mo2Guard(w)
          \/ Mo2Backup(w)
          \/ Mo2Apply(w)
          \/ Mo2Reverse(w)
          \/ Mo2Drop(w)
          \/ ExesThread(w)

SpecApp == InitApp /\ [][NextApp]_vars

Mo2Threads == { w \in 1..Len(workers) : workers[w].kind = "mo2" }
Committed(w) == workers[w].result = Ok

\* C37 (finished is reported after the commit): a thread of InstallMo2 has
\* reported finished = true only when its guarded transaction into mo2 has
\* returned Ok; a run that ended in an error has not reported it, and the
\* completion dialog is shown only for a committed install.
C37_FinishedAfterCommit ==
    /\ \A w \in Mo2Threads : workers[w].progress.finished => Committed(w)
    /\ \A w \in Mo2Threads :
          workers[w].result.state \in { "err", "panic" } => ~workers[w].progress.finished
    /\ DialogShown => Committed(op)

Live(w) == workers[w].at \notin { "returned", "panicked" }
InTransaction(w) ==
    workers[w].kind = "mo2" /\ workers[w].at \in { "guard", "backedup", "applyfailed", "ran" }

\* C38 (one operation at a time): threads are started from Normal only, at
\* most one thread is running, the state is Normal only when no thread is
\* running, and no two guarded transactions on mo2 with the backup
\* directory BACKUP are under way together.
C38_OneOperation ==
    /\ appState \in { "NoAnomaly", "GameNotInitialized" } => workers = << >>
    /\ Cardinality({ w \in 1..Len(workers) : Live(w) }) <= 1
    /\ appState = "Normal" => \A w \in 1..Len(workers) : ~Live(w)
    /\ \A v, w \in 1..Len(workers) :
          (InTransaction(v) /\ InTransaction(w)) => v = w


\* A state C37 excludes: the completion dialog is shown while the run behind
\* it has returned the error of a failed merge.
C37_DialogForFailedRun ==
    /\ DialogShown
    /\ workers[op].at = "returned" /\ workers[op].result.state = "err"

\* A state C38 excludes: the state is InstallMo2 for a second thread while
\* the first one is still in its guarded transaction, and both hold a guard
\* on the same backup directory.
C38_TwoTransactions ==
    /\ Len(workers) = 2
    /\ InTransaction(1) /\ InTransaction(2)

=============================================================================
